---- MODULE Spec2Model ----
(***************************************************************************)
(* A model of texjam's scaffold execution engine:                          *)
(*   TexJam.load_plugins, TexJam.prompt and TexJam.render                  *)
(*   (src/texjam/render/executor.py), the Prompter                         *)
(*   (src/texjam/config/meta.py) and TempPath (src/texjam/path.py).        *)
(*                                                                         *)
(* One run is  load_plugins() ; prompt(data) ; render()  as the CLI's      *)
(* `create` command performs it.  Every hook invocation is one step, so    *)
(* the position of the run inside each loop over self.plugins is state.    *)
(*                                                                         *)
(* Strings that are concatenated by the program (file contents) are        *)
(* sequences of tokens; template texts are terms evaluated by Jinja.       *)
(* File modes (chmod) are not modelled.                                    *)
(***************************************************************************)
EXTENDS Integers, Sequences, FiniteSets, TLC

\* The largest number of plugin classes the scripts of a plugin directory define.
MaxPlugins == 2

----------------------------------------------------------------------------
(* Values, strings and their order *)

\* A Python value: t is its type, v its str() form.
Val(t, v) == [t |-> t, v |-> v]

StrV(s) == Val("str", s)

IntV(s) == Val("int", s)

BoolV(s) == Val("bool", s)

\* The strings of the model in Python's (code point) order, as str.__lt__ compares.
StrOrder == <<"", "0.1.0", "7", "a", "b", "demo", "draft.txt", "finalize.txt", "keep", "notes.txt", "path.txt">>

StrPos(s) == CHOOSE i \in 1..Len(StrOrder) : StrOrder[i] = s

StrLt(s, t) == StrPos(s) < StrPos(t)

\* bool(value): Python truthiness, as Jinja's inline `if` tests it.
Truthy(val) ==
    /\ ~(val.t = "str" /\ val.v = "")
    /\ ~(val.t = "int" /\ val.v = "0")
    /\ ~(val.t = "bool" /\ val.v = "False")

----------------------------------------------------------------------------
(* The metadata mapping: a dict, kept in insertion order *)

MetaHas(md, k) == \E i \in 1..Len(md) : md[i].k = k

MetaGet(md, k) == md[CHOOSE i \in 1..Len(md) : md[i].k = k].v

\* md[k] = v : an existing key keeps its position, a new key goes last.
MetaSet(md, k, v) ==
    IF MetaHas(md, k)
    THEN [i \in 1..Len(md) |-> IF md[i].k = k THEN [k |-> k, v |-> v] ELSE md[i]]
    ELSE Append(md, [k |-> k, v |-> v])

MetaKeys(md) == {md[i].k : i \in 1..Len(md)}

----------------------------------------------------------------------------
(* Template texts and the Jinja environment *)

\* A literal text: no template markup.
Lit(s) == [op |-> "lit", k |-> "", s |-> s]

\* "((( k )))" : the value of a variable.
Var(k) == [op |-> "var", k |-> k, s |-> ""]

\* "((( 's' if k )))" : a text under a condition.
If(k, s) == [op |-> "if", k |-> k, s |-> s]

\* "((( k.strip() )))" : a method of str called on a variable.
Call(k) == [op |-> "call", k |-> k, s |-> ""]

\* A text with malformed markup.
Bad == [op |-> "bad", k |-> "", s |-> ""]

\* env.from_string(tpl).render(md): ok is FALSE when Jinja raises TemplateError.
\* An undefined variable renders as the empty string (Jinja's default Undefined);
\* calling a method on it, or a str method on a value that is no str, raises
\* UndefinedError, a TemplateError.
JinjaRender(tpl, md) ==
    CASE tpl.op = "lit" -> [ok |-> TRUE, s |-> tpl.s]
      [] tpl.op = "var" ->
            [ok |-> TRUE, s |-> IF MetaHas(md, tpl.k) THEN MetaGet(md, tpl.k).v ELSE ""]
      [] tpl.op = "if" ->
            [ok |-> TRUE,
             s |-> IF MetaHas(md, tpl.k) /\ Truthy(MetaGet(md, tpl.k)) THEN tpl.s ELSE ""]
      [] tpl.op = "call" ->
            IF MetaHas(md, tpl.k) /\ MetaGet(md, tpl.k).t = "str"
            THEN [ok |-> TRUE, s |-> MetaGet(md, tpl.k).v]
            ELSE [ok |-> FALSE, s |-> ""]
      [] OTHER -> [ok |-> FALSE, s |-> ""]

----------------------------------------------------------------------------
(* Paths *)

\* p is a component-wise prefix of q.
IsPrefix(p, q) == Len(p) <= Len(q) /\ SubSeq(q, 1, Len(p)) = p

StrictPrefix(p, q) == IsPrefix(p, q) /\ Len(p) < Len(q)

Parent(p) == SubSeq(p, 1, Len(p) - 1)

\* Path.__lt__: the lists of components compared lexicographically.
PathLt(p, q) ==
    \E i \in 1..(Len(q)) :
        /\ \A j \in 1..(i - 1) : j <= Len(p) /\ p[j] = q[j]
        /\ \/ i = Len(p) + 1
           \/ i <= Len(p) /\ StrLt(p[i], q[i])

\* Path(*parts): empty components vanish.
RECURSIVE PathOf(_)
PathOf(parts) ==
    IF parts = <<>> THEN <<>>
    ELSE IF Head(parts) = "" THEN PathOf(Tail(parts))
         ELSE <<Head(parts)>> \o PathOf(Tail(parts))

----------------------------------------------------------------------------
(* The template's configuration (TexJamConfig.meta) and the run's inputs *)

\* A MetaStr field: `default` is a template text rendered when the field is prompted.
MetaStr(name, required, default) ==
    [name |-> name, type |-> "str", required |-> required, default |-> default]

\* config.meta in declared order:  project_name: {type: str, required: true},
\* version: "0.1.0".
Meta == << MetaStr("project_name", TRUE, Lit("")),
           MetaStr("version", FALSE, Lit("0.1.0")) >>

FieldNames == {Meta[i].name : i \in 1..Len(Meta)}

\* The `data` argument of prompt(): none is TRUE for data = None, else d is the dict.
NoData == [none |-> TRUE, d |-> <<>>]

Data(d) == [none |-> FALSE, d |-> d]

\* The metadata objects given on the command line (--data / --json-file / --yaml-file).
Presets ==
    { NoData,
      Data([k \in {"project_name"} |-> StrV("demo")]),
      Data([k \in {"project_name", "version"} |->
                IF k = "project_name" THEN StrV("") ELSE IntV("7")]) }

\* What the user types instead of accepting the text the prompt is pre-filled with.
TypedAnswers == {"", "a"}

----------------------------------------------------------------------------
(* TempPath and the template's source tree *)

\* The content of a file: text (a template, rendered) or bytes (written as they are).
Text(tpl) == [bin |-> FALSE, tpl |-> tpl]

Bytes(s) == [bin |-> TRUE, tpl |-> Lit(s)]

NoContent == Text(Lit(""))

\* One entry under template_source_dir: raw is its path relative to the source
\* directory, each component the template text that names it.
SrcDir(raw) == [raw |-> raw, is_dir |-> TRUE, content |-> NoContent]

SrcFile(raw, content) == [raw |-> raw, is_dir |-> FALSE, content |-> content]

\* src/ of the template:   a/   a/b (binary)   (((project_name)))/
\* (((project_name)))/b (text: "(((version)))")
SourceTree ==
    { SrcDir(<<Lit("a")>>),
      SrcFile(<<Lit("a"), Lit("b")>>, Bytes("png")),
      SrcDir(<<Var("project_name")>>),
      SrcFile(<<Var("project_name"), Lit("b")>>, Text(Var("version"))) }

\* TempPath(raw=, rendered=): is_dir and content are read from the source entry.
TempPath(src, rendered) ==
    [raw |-> src.raw, rendered |-> rendered, is_dir |-> src.is_dir,
     content |-> src.content]

\* TempPath(rendered=, is_dir=, content=): a virtual path; raw is None (here <<>>),
\* and a file given no content holds b''.
VirtualPath(rendered, is_dir, content) ==
    [raw |-> <<>>, rendered |-> rendered, is_dir |-> is_dir, content |-> content]

\* TempPath(rendered=, is_dir=False): a virtual file created without content;
\* __init__ gives it b''.
VirtualFile(rendered) == VirtualPath(rendered, FALSE, Bytes(""))

\* All orders of a finite set, as sequences.
RECURSIVE Perms(_)
Perms(S) ==
    IF S = {} THEN {<<>>}
    ELSE UNION { {<<x>> \o rest : rest \in Perms(S \ {x})} : x \in S }

\* The orders in which rglob('*') may yield the tree: a directory before what it holds.
WalkOrders(tree) ==
    { o \in Perms(tree) :
        \A i, j \in 1..Len(o) : StrictPrefix(o[i].raw, o[j].raw) => i < j }

\* The rendered components of a relative path.
RenderParts(raw, md) == [i \in 1..Len(raw) |-> JinjaRender(raw[i], md).s]

PartsOk(raw, md) == \A i \in 1..Len(raw) : JinjaRender(raw[i], md).ok

\* Only the entry's own name is looked at: the components above it are forgotten.
LastEmpty(parts) == parts[Len(parts)] = ""

\* `any(part == '' for part in parts)`
AnyEmpty(parts) == \E i \in 1..Len(parts) : parts[i] = ""

\* The tree walk of render(): the entries kept, in walk order.
RECURSIVE Gather(_, _)
Gather(order, md) ==
    IF order = <<>> THEN <<>>
    ELSE LET parts == RenderParts(Head(order).raw, md)
         IN  IF AnyEmpty(parts) THEN Gather(Tail(order), md)
             ELSE <<TempPath(Head(order), PathOf(parts))>> \o Gather(Tail(order), md)

\* sorted(temp_paths, key=lambda p: p.rendered): a stable sort.
RECURSIVE InsertSorted(_, _)
InsertSorted(list, e) ==
    IF list = <<>> THEN <<e>>
    ELSE IF PathLt(e.rendered, Head(list).rendered) THEN <<e>> \o list
         ELSE <<Head(list)>> \o InsertSorted(Tail(list), e)

\* The list iterated as on_paths left it: the sort forgotten.
Unsorted(list) == list

RECURSIVE Sorted(_)
Sorted(list) ==
    IF list = <<>> THEN <<>>
    ELSE InsertSorted(Sorted(SubSeq(list, 1, Len(list) - 1)), list[Len(list)])

Reversed(list) == [i \in 1..Len(list) |-> list[Len(list) + 1 - i]]

----------------------------------------------------------------------------
(* The output directory *)

\* A node of the output directory; src is the raw path of the entry it was made for
\* (<<>> when it was made for none: it was there before, or a plugin made it).
Node(kind, data, src) == [kind |-> kind, data |-> data, src |-> src]

\* The output directory before the run: absent, or holding  a/  and  a/keep.
InitialDisks ==
    { <<>> :> Node("none", <<>>, <<>>),
      (<<>> :> Node("dir", <<>>, <<>>)) @@
      (<<"a">> :> Node("dir", <<>>, <<>>)) @@
      (<<"a", "keep">> :> Node("file", <<"keep">>, <<>>)) }

\* Path.exists() of output_dir / p
Exists(d, p) == p \in DOMAIN d /\ d[p].kind # "none"

Put(d, p, node) == [q \in DOMAIN d \cup {p} |-> IF q = p THEN node ELSE d[q]]

\* The proper ancestors of p, the output directory itself left out.
Ancestors(p) == {SubSeq(p, 1, n) : n \in 1..(Len(p) - 1)}

\* mkdir(parents=True): some ancestor is a file (NotADirectoryError).
MkdirBlocked(d, p) == \E a \in Ancestors(p) : Exists(d, a) /\ d[a].kind = "file"

\* A mkdir that makes nothing.
MkdirNothing(d, p, src) == d

\* mkdir(parents=True): the directory and its missing ancestors are made.
Mkdir(d, p, src) ==
    [q \in DOMAIN d \cup Ancestors(p) \cup {p} |->
        IF q = p \/ (q \in Ancestors(p) /\ ~Exists(d, q))
        THEN Node("dir", <<>>, src) ELSE d[q]]

\* write_text / write_bytes fail: the parent is a file, or the target a directory.
WriteBlocked(d, p) ==
    \/ Len(p) > 1 /\ d[Parent(p)].kind = "file"
    \/ Exists(d, p) /\ d[p].kind = "dir"

----------------------------------------------------------------------------
(* Plugins *)

\* A plugin class, by what its hooks do:
\*   pre_prompt / post_prompt : the field names for which the hook returns True
\*   initialize               : TRUE when it sets metadata['example'] = True
\*   on_paths                 : "none" (returns None), "example", "notes", "draft",
\*                              "prune"
\*   on_render                : "" (returns None) or the text it appends to the content
\*   finalize                 : TRUE when it touches <slug>/finalize.txt
\* Every other hook is TexJamPlugin's own: it does nothing and returns None.
PluginClass(name, pre, post, init, paths, rend, fin) ==
    [name |-> name, pre_prompt |-> pre, post_prompt |-> post, initialize |-> init,
     on_paths |-> paths, on_render |-> rend, finalize |-> fin]

\* The metadata key ExamplePlugin reads (the example template's `slug`).
Slug == "project_name"

\* src/example/plugins/plugin.py
ExamplePlugin == PluginClass("ExamplePlugin", {}, {}, TRUE, "example", "<!-- Example -->", TRUE)

\* A plugin whose pre_prompt returns True for version: the field is skipped.
SkipPlugin == PluginClass("SkipPlugin", {"version"}, {}, FALSE, "none", "", FALSE)

\* A plugin whose post_prompt returns True for project_name: the value is intercepted.
InterceptPlugin ==
    PluginClass("InterceptPlugin", {}, {"project_name"}, FALSE, "none", "", FALSE)

\* A plugin that returns a new list from on_paths (the entries reversed, and a virtual
\* notes.txt with literal content) and appends a line to every rendered text.
NotesPlugin == PluginClass("NotesPlugin", {}, {}, FALSE, "notes", "<!-- Notes -->", FALSE)

\* A plugin whose on_paths appends a virtual draft.txt, its content a text with
\* markup in it: "((( version.strip() )))".
DraftPlugin == PluginClass("DraftPlugin", {}, {}, FALSE, "draft", "", FALSE)

\* A plugin whose on_paths removes entries: it returns the list without its
\* directories, and with a virtual file `keep` created without content.
PrunePlugin == PluginClass("PrunePlugin", {}, {}, FALSE, "prune", "", FALSE)

PluginClasses ==
    {ExamplePlugin, SkipPlugin, InterceptPlugin, NotesPlugin, DraftPlugin, PrunePlugin}

\* The sequences over S of length at most n.
SeqsUpTo(S, n) == UNION {[1..k -> S] : k \in 0..n}

\* What a call is passed or returns: None, True, a list of TempPaths, a text, a
\* value, or the exception it raises.
Ret(flag, paths, text, val) == [flag |-> flag, paths |-> paths, text |-> text, val |-> val]

NoneRet == Ret("None", <<>>, <<>>, Val("none", ""))

TrueRet == Ret("True", <<>>, <<>>, Val("none", ""))

PathsRet(l) == Ret("list", l, <<>>, Val("none", ""))

TextRet(t) == Ret("str", <<>>, t, Val("none", ""))

ValRet(v) == Ret("value", <<>>, <<>>, v)

ErrRet(e) == Ret(e, <<>>, <<>>, Val("none", ""))

\* plugin.pre_prompt(name, field)
pre_prompt(plugin, name) == IF name \in plugin.pre_prompt THEN TrueRet ELSE NoneRet

\* plugin.post_prompt(name, field, value)
post_prompt(plugin, name) == IF name \in plugin.post_prompt THEN TrueRet ELSE NoneRet

\* plugin.on_paths(paths): the list returned, None, or the exception raised.
on_paths(plugin, paths, md) ==
    CASE plugin.on_paths = "example" ->
            IF ~MetaHas(md, Slug) THEN ErrRet("KeyError")
            ELSE IF MetaGet(md, Slug).t # "str" THEN ErrRet("TypeError")
            ELSE PathsRet(Append(paths,
                    VirtualPath(PathOf(<<MetaGet(md, Slug).v, "path.txt">>), FALSE,
                                Text(Lit("")))))
      [] plugin.on_paths = "notes" ->
            PathsRet(Append(Reversed(paths),
                    VirtualPath(<<"notes.txt">>, FALSE, Text(Lit("note")))))
      [] plugin.on_paths = "draft" ->
            PathsRet(Append(paths,
                    VirtualPath(<<"draft.txt">>, FALSE, Text(Call("version")))))
      [] plugin.on_paths = "prune" ->
            PathsRet(Append(SelectSeq(paths, LAMBDA e : ~e.is_dir),
                            VirtualFile(<<"keep">>)))
      [] OTHER -> NoneRet

\* An on_render that returns None whatever the plugin.
on_render_none(plugin, rendered) == NoneRet

\* plugin.on_render(path, rendered)
on_render(plugin, rendered) ==
    IF plugin.on_render = "" THEN NoneRet
    ELSE TextRet(Append(rendered, plugin.on_render))

----------------------------------------------------------------------------
(* The state of a run *)

VARIABLES
    pc,                \* where the run stands
    registry,          \* TexJamPlugin.plugins: the plugin classes registered
    scripts,           \* the plugin classes the scripts of the plugin directory define
    plugins,           \* self.plugins
    data,              \* the data argument of prompt()
    metadata,          \* self.metadata
    fieldIdx,          \* the field prompt() is at
    plugIdx,           \* the plugin the current loop over self.plugins is at
    value,             \* prompt(): the value resolved for the field
    temp_paths,        \* render(): temp_paths
    queue,             \* render(): sorted(temp_paths, ...), being iterated
    entryIdx,          \* render(): the entry the creation loop is at
    rendered_content,  \* render(): rendered_content
    disk,              \* the output directory
    disk0,             \* the output directory as it was before the run
    error,             \* the exception that ended the run, or "none"
    trace,             \* what happened so far: hook calls, prompts, stores, creations
    obj,               \* one field of the configuration: its raw declaration
    impl,              \* the module that builds and prompts it: "config" or "meta"
    meta_field,        \* the descriptor built from obj
    fpc,               \* where the building and prompting of the field stands
    reads,             \* how many lines of input the prompt has read
    user_input,        \* the line read last
    input_value,       \* the value the prompt returned
    source_dir,        \* template_source_dir exists
    runs,              \* the number of the run within the process: 1, then 2
    first              \* the first run's prompt(): the mapping it yielded, the answers
                       \* the user gave

\* The state of a run of the engine, and the state of one field taken alone.
runVars == <<pc, registry, scripts, plugins, data, metadata, fieldIdx, plugIdx, value,
             temp_paths, queue, entryIdx, rendered_content, disk, disk0, error, trace>>

fieldVars == <<obj, impl, meta_field, fpc, reads, user_input, input_value>>

\* What outlives a run: the template on disk and the runs the process has made.
processVars == <<source_dir, runs, first>>

vars == <<runVars, fieldVars, processVars>>

\* No field is taken alone: the state of fieldVars during a run of the engine.
NoField == [cls |-> "none"]

FieldIdle ==
    /\ obj = Val("none", "")
    /\ impl = "meta"
    /\ meta_field = NoField
    /\ fpc = "idle"
    /\ reads = 0
    /\ user_input = ""
    /\ input_value = Val("none", "")

\* One event of the trace. plugin is the index in self.plugins of the plugin called,
\* 0 for what the engine does itself; n and item are the index and the name of the
\* field, or the index in the sorted list and the rendered path of the entry, the
\* event is about (0 and <<>> when it is about neither).
Event(ev, plugin, n, item, arg, ret) ==
    [ev |-> ev, plugin |-> plugin, n |-> n, item |-> item, arg |-> arg, ret |-> ret]

Log(e) == trace' = Append(trace, e)

Fail(e) == pc' = "failed" /\ error' = e

\* Inside a loop `for plugin in self.plugins`, and past its end.
InLoop(stage) == pc = stage /\ plugIdx <= Len(plugins)

PastLoop(stage) == pc = stage /\ plugIdx > Len(plugins)

Field == Meta[fieldIdx]

Entry == queue[entryIdx]

\* The prompts issued so far and the answers given, in order.
Asked == SelectSeq(trace, LAMBDA e : e.ev = "ask")

Init ==
    /\ pc = "load"
    /\ registry = <<>>
    /\ scripts \in SeqsUpTo(PluginClasses, MaxPlugins)
    /\ plugins = <<>>
    /\ data \in Presets
    /\ metadata = <<>>
    /\ fieldIdx = 1
    /\ plugIdx = 1
    /\ value = StrV("")
    /\ temp_paths = <<>>
    /\ queue = <<>>
    /\ entryIdx = 1
    /\ rendered_content = <<>>
    /\ disk \in InitialDisks
    /\ disk0 = disk
    /\ error = "none"
    /\ trace = <<>>
    /\ FieldIdle
    /\ source_dir \in BOOLEAN
    /\ runs = 1
    /\ first = [metadata |-> <<>>, asked |-> <<>>]

----------------------------------------------------------------------------
(* load_plugins() *)

\* The scripts of the plugin directory are executed (each class they define registers
\* itself with TexJamPlugin.plugins), then the loop over the registry starts.
LoadPlugins ==
    /\ pc = "load"
    /\ registry' = registry \o scripts
    /\ plugins' = <<>>
    /\ plugIdx' = 1
    /\ pc' = "on_load"
    /\ UNCHANGED <<scripts, data, metadata, fieldIdx, value, temp_paths, queue, entryIdx,
                   rendered_content, disk, disk0, error, trace>>
    /\ UNCHANGED <<fieldVars, processVars>>

\* One round of `for plugin_cls in TexJamPlugin.plugins`: instantiate, on_load, append.
OnLoad ==
    /\ pc = "on_load"
    /\ plugIdx <= Len(registry)
    /\ plugins' = Append(plugins, registry[plugIdx])
    /\ Log(Event("on_load", plugIdx, 0, <<>>, NoneRet, NoneRet))
    /\ plugIdx' = plugIdx + 1
    /\ UNCHANGED <<pc, registry, scripts, data, metadata, fieldIdx, value, temp_paths,
                   queue, entryIdx, rendered_content, disk, disk0, error>>
    /\ UNCHANGED <<fieldVars, processVars>>

----------------------------------------------------------------------------
(* prompt(data) *)

\* `for name, field in self.config.meta.items()` moves to field i, or prompt() returns.
GotoField(i) ==
    /\ fieldIdx' = i
    /\ plugIdx' = 1
    /\ pc' = IF i > Len(Meta) THEN "render" ELSE "pre_prompt"

\* prompt() is entered and goes on with the mapping it finds.
PromptBeginKeeps ==
    /\ pc = "on_load"
    /\ plugIdx > Len(registry)
    /\ GotoField(1)
    /\ UNCHANGED <<registry, scripts, plugins, data, metadata, value, temp_paths, queue,
                   entryIdx, rendered_content, disk, disk0, error, trace>>
    /\ UNCHANGED <<fieldVars, processVars>>

\* prompt() is entered: self.metadata = {}.
PromptBegin ==
    /\ pc = "on_load"
    /\ plugIdx > Len(registry)
    /\ metadata' = <<>>
    /\ GotoField(1)
    /\ UNCHANGED <<registry, scripts, plugins, data, value, temp_paths, queue, entryIdx,
                   rendered_content, disk, disk0, error, trace>>
    /\ UNCHANGED <<fieldVars, processVars>>

\* pre_prompt called, its result dropped: the loop goes on and the field is resolved.
PrePromptIgnored ==
    /\ InLoop("pre_prompt")
    /\ Log(Event("pre_prompt", plugIdx, fieldIdx, <<Field.name>>, NoneRet,
                 pre_prompt(plugins[plugIdx], Field.name)))
    /\ plugIdx' = plugIdx + 1
    /\ UNCHANGED <<pc, fieldIdx, registry, scripts, plugins, data, metadata, value,
                   temp_paths, queue, entryIdx, rendered_content, disk, disk0, error>>
    /\ UNCHANGED <<fieldVars, processVars>>

\* One call of plugin.pre_prompt: True skips the field (break, then continue).
PrePrompt ==
    /\ InLoop("pre_prompt")
    /\ LET result == pre_prompt(plugins[plugIdx], Field.name)
       IN  /\ Log(Event("pre_prompt", plugIdx, fieldIdx, <<Field.name>>, NoneRet, result))
           /\ IF result = TrueRet
              THEN GotoField(fieldIdx + 1)
              ELSE /\ plugIdx' = plugIdx + 1
                   /\ UNCHANGED <<pc, fieldIdx>>
    /\ UNCHANGED <<registry, scripts, plugins, data, metadata, value, temp_paths, queue,
                   entryIdx, rendered_content, disk, disk0, error>>
    /\ UNCHANGED <<fieldVars, processVars>>

\* `data is not None and name in data`
InData(name) == ~data.none /\ name \in DOMAIN data.d

\* The preset value passed through the field's conversion, as an answer is.
UsePresetConverted ==
    /\ PastLoop("pre_prompt")
    /\ InData(Field.name)
    /\ value' = StrV(data.d[Field.name].v)
    /\ Log(Event("preset", 0, fieldIdx, <<Field.name>>, NoneRet, ValRet(data.d[Field.name])))
    /\ pc' = "post_prompt"
    /\ plugIdx' = 1
    /\ UNCHANGED <<registry, scripts, plugins, data, metadata, fieldIdx, temp_paths,
                   queue, entryIdx, rendered_content, disk, disk0, error>>
    /\ UNCHANGED <<fieldVars, processVars>>

\* A key found in the preset data is stored at once: no hook is called for it.
UsePresetDirect ==
    /\ pc = "pre_prompt"
    /\ InData(Field.name)
    /\ value' = data.d[Field.name]
    /\ metadata' = MetaSet(metadata, Field.name, data.d[Field.name])
    /\ trace' = trace \o
          << Event("preset", 0, fieldIdx, <<Field.name>>, NoneRet,
                   ValRet(data.d[Field.name])),
             Event("store", 0, fieldIdx, <<Field.name>>, NoneRet, NoneRet) >>
    /\ GotoField(fieldIdx + 1)
    /\ UNCHANGED <<registry, scripts, plugins, data, temp_paths, queue, entryIdx,
                   rendered_content, disk, disk0, error>>
    /\ UNCHANGED <<fieldVars, processVars>>

\* value = data[name]: the value is taken from the data as it is.
UsePreset ==
    /\ PastLoop("pre_prompt")
    /\ InData(Field.name)
    /\ value' = data.d[Field.name]
    /\ Log(Event("preset", 0, fieldIdx, <<Field.name>>, NoneRet, ValRet(data.d[Field.name])))
    /\ pc' = "post_prompt"
    /\ plugIdx' = 1
    /\ UNCHANGED <<registry, scripts, plugins, data, metadata, fieldIdx, temp_paths,
                   queue, entryIdx, rendered_content, disk, disk0, error>>
    /\ UNCHANGED <<fieldVars, processVars>>

\* MetaStr._question_validate(answer)
QuestionValidate(field, answer) == ~(field.required /\ answer = "")

\* MetaStr._convert_answer(answer): the text as it is.
ConvertAnswer(field, answer) == StrV(answer)

\* Prompter.prompt_meta_field: the text the prompt is pre-filled with
\* (`self._render_value(_default) or ''`).
DefaultValue(field, md) == JinjaRender(field.default, md)

\* With preset data given, a field absent from it takes its default and no prompt
\* is issued.
PromptMetaFieldSilent ==
    /\ PastLoop("pre_prompt")
    /\ ~InData(Field.name)
    /\ IF ~DefaultValue(Field, metadata).ok
       THEN /\ Fail("TemplateError")
            /\ UNCHANGED <<value, plugIdx, trace>>
       ELSE /\ IF data.none
               THEN \E answer \in {DefaultValue(Field, metadata).s} \cup TypedAnswers :
                       /\ QuestionValidate(Field, answer)
                       /\ value' = ConvertAnswer(Field, answer)
                       /\ Log(Event("ask", 0, fieldIdx, <<Field.name>>,
                                    TextRet(<<DefaultValue(Field, metadata).s>>),
                                    ValRet(ConvertAnswer(Field, answer))))
               ELSE /\ value' = ConvertAnswer(Field, DefaultValue(Field, metadata).s)
                    /\ UNCHANGED trace
            /\ pc' = "post_prompt"
            /\ plugIdx' = 1
            /\ UNCHANGED error
    /\ UNCHANGED <<registry, scripts, plugins, data, metadata, fieldIdx, temp_paths,
                   queue, entryIdx, rendered_content, disk, disk0>>
    /\ UNCHANGED <<fieldVars, processVars>>

\* value = prompter.prompt_meta_field(name, field), the user answering. An answer
\* that fails the validation is not accepted by the prompt, which stays open.
\* A default that is a malformed template ends the run with Jinja's TemplateError.
PromptMetaField ==
    /\ PastLoop("pre_prompt")
    /\ ~InData(Field.name)
    /\ IF ~DefaultValue(Field, metadata).ok
       THEN /\ Fail("TemplateError")
            /\ UNCHANGED <<value, plugIdx, trace>>
       ELSE /\ \E answer \in {DefaultValue(Field, metadata).s} \cup TypedAnswers :
                  /\ QuestionValidate(Field, answer)
                  /\ value' = ConvertAnswer(Field, answer)
                  /\ Log(Event("ask", 0, fieldIdx, <<Field.name>>,
                               TextRet(<<DefaultValue(Field, metadata).s>>),
                               ValRet(ConvertAnswer(Field, answer))))
            /\ pc' = "post_prompt"
            /\ plugIdx' = 1
            /\ UNCHANGED error
    /\ UNCHANGED <<registry, scripts, plugins, data, metadata, fieldIdx, temp_paths,
                   queue, entryIdx, rendered_content, disk, disk0>>
    /\ UNCHANGED <<fieldVars, processVars>>

\* The user cancels the prompt and the exception is caught around prompt(): the
\* fields left are dropped and the run goes on to render().
PromptCancelCaught ==
    /\ PastLoop("pre_prompt")
    /\ ~InData(Field.name)
    /\ DefaultValue(Field, metadata).ok
    /\ Log(Event("ask", 0, fieldIdx, <<Field.name>>,
                 TextRet(<<DefaultValue(Field, metadata).s>>), ErrRet("Abort")))
    /\ pc' = "render"
    /\ UNCHANGED <<registry, scripts, plugins, data, metadata, fieldIdx, plugIdx, value,
                   temp_paths, queue, entryIdx, rendered_content, disk, disk0, error>>
    /\ UNCHANGED <<fieldVars, processVars>>

\* The user cancels the prompt (Ctrl+C): questionary returns nothing, typer.Abort.
PromptCancel ==
    /\ PastLoop("pre_prompt")
    /\ ~InData(Field.name)
    /\ DefaultValue(Field, metadata).ok
    /\ Log(Event("ask", 0, fieldIdx, <<Field.name>>,
                 TextRet(<<DefaultValue(Field, metadata).s>>), ErrRet("Abort")))
    /\ Fail("Abort")
    /\ UNCHANGED <<registry, scripts, plugins, data, metadata, fieldIdx, plugIdx, value,
                   temp_paths, queue, entryIdx, rendered_content, disk, disk0>>
    /\ UNCHANGED <<fieldVars, processVars>>

\* post_prompt called, its result dropped: the loop goes on and the value is stored.
PostPromptIgnored ==
    /\ InLoop("post_prompt")
    /\ Log(Event("post_prompt", plugIdx, fieldIdx, <<Field.name>>, ValRet(value),
                 post_prompt(plugins[plugIdx], Field.name)))
    /\ plugIdx' = plugIdx + 1
    /\ UNCHANGED <<pc, fieldIdx, registry, scripts, plugins, data, metadata, value,
                   temp_paths, queue, entryIdx, rendered_content, disk, disk0, error>>
    /\ UNCHANGED <<fieldVars, processVars>>

\* One call of plugin.post_prompt: True intercepts the value (break, then continue).
PostPrompt ==
    /\ InLoop("post_prompt")
    /\ LET result == post_prompt(plugins[plugIdx], Field.name)
       IN  /\ Log(Event("post_prompt", plugIdx, fieldIdx, <<Field.name>>, ValRet(value),
                     result))
           /\ IF result = TrueRet
              THEN GotoField(fieldIdx + 1)
              ELSE /\ plugIdx' = plugIdx + 1
                   /\ UNCHANGED <<pc, fieldIdx>>
    /\ UNCHANGED <<registry, scripts, plugins, data, metadata, value, temp_paths, queue,
                   entryIdx, rendered_content, disk, disk0, error>>
    /\ UNCHANGED <<fieldVars, processVars>>

\* self.metadata[name] = value
Store ==
    /\ PastLoop("post_prompt")
    /\ metadata' = MetaSet(metadata, Field.name, value)
    /\ Log(Event("store", 0, fieldIdx, <<Field.name>>, NoneRet, NoneRet))
    /\ GotoField(fieldIdx + 1)
    /\ UNCHANGED <<registry, scripts, plugins, data, value, temp_paths, queue, entryIdx,
                   rendered_content, disk, disk0, error>>
    /\ UNCHANGED <<fieldVars, processVars>>

----------------------------------------------------------------------------
(* render() *)

\* render() looks for the source directory first: when it is not there the run
\* fails before the output directory is made and before any initialize call.
RenderBeginSourceFirst ==
    /\ pc = "render"
    /\ IF ~source_dir
       THEN /\ Fail("TexJamScaffoldSourceDirNotFoundException")
            /\ UNCHANGED <<disk, plugIdx>>
       ELSE /\ disk' = IF Exists(disk, <<>>) THEN disk
                       ELSE Put(disk, <<>>, Node("dir", <<>>, <<>>))
            /\ pc' = "initialize"
            /\ plugIdx' = 1
            /\ UNCHANGED error
    /\ UNCHANGED <<registry, scripts, plugins, data, metadata, fieldIdx, value,
                   temp_paths, queue, entryIdx, rendered_content, disk0, trace>>
    /\ first' = IF runs = 1 THEN [metadata |-> metadata, asked |-> Asked] ELSE first
    /\ UNCHANGED <<fieldVars, source_dir, runs>>

\* render() is entered: self.output_dir.mkdir(parents=True, exist_ok=True).
RenderBegin ==
    /\ pc = "render"
    /\ disk' = IF Exists(disk, <<>>) THEN disk ELSE Put(disk, <<>>, Node("dir", <<>>, <<>>))
    /\ pc' = "initialize"
    /\ plugIdx' = 1
    /\ UNCHANGED <<registry, scripts, plugins, data, metadata, fieldIdx, value,
                   temp_paths, queue, entryIdx, rendered_content, disk0, error, trace>>
    /\ first' = IF runs = 1 THEN [metadata |-> metadata, asked |-> Asked] ELSE first
    /\ UNCHANGED <<fieldVars, source_dir, runs>>

\* One call of plugin.initialize().
Initialize ==
    /\ InLoop("initialize")
    /\ metadata' = IF plugins[plugIdx].initialize
                   THEN MetaSet(metadata, "example", BoolV("True"))
                   ELSE metadata
    /\ Log(Event("initialize", plugIdx, 0, <<>>, NoneRet, NoneRet))
    /\ plugIdx' = plugIdx + 1
    /\ UNCHANGED <<pc, registry, scripts, plugins, data, fieldIdx, value, temp_paths,
                   queue, entryIdx, rendered_content, disk, disk0, error>>
    /\ UNCHANGED <<fieldVars, processVars>>

\* The tree walk: every entry of the source directory, in the order rglob yields
\* them, with its path rendered; an entry with an empty component is left out.
GatherPaths ==
    /\ PastLoop("initialize")
    /\ IF ~source_dir
       THEN /\ Fail("TexJamScaffoldSourceDirNotFoundException")
            /\ UNCHANGED <<temp_paths, plugIdx, trace>>
       ELSE IF \E e \in SourceTree : ~PartsOk(e.raw, metadata)
       THEN /\ Fail("TemplateError")
            /\ UNCHANGED <<temp_paths, plugIdx, trace>>
       ELSE /\ \E order \in WalkOrders(SourceTree) :
                  /\ temp_paths' = Gather(order, metadata)
                  /\ Log(Event("gather", 0, 0, <<>>, NoneRet,
                               PathsRet(Gather(order, metadata))))
            /\ pc' = "on_paths"
            /\ plugIdx' = 1
            /\ UNCHANGED error
    /\ UNCHANGED <<registry, scripts, plugins, data, metadata, fieldIdx, value, queue,
                   entryIdx, rendered_content, disk, disk0>>
    /\ UNCHANGED <<fieldVars, processVars>>

\* on_paths called, what it returns assigned to temp_paths even when it is None.
OnPathsUnchecked ==
    /\ InLoop("on_paths")
    /\ LET modified_paths == on_paths(plugins[plugIdx], temp_paths, metadata)
       IN  /\ Log(Event("on_paths", plugIdx, 0, <<>>, PathsRet(temp_paths), modified_paths))
           /\ IF modified_paths.flag \notin {"None", "list"}
              THEN /\ Fail(modified_paths.flag)
                   /\ UNCHANGED <<temp_paths, plugIdx>>
              ELSE /\ temp_paths' = modified_paths.paths
                   /\ plugIdx' = plugIdx + 1
                   /\ UNCHANGED <<pc, error>>
    /\ UNCHANGED <<registry, scripts, plugins, data, metadata, fieldIdx, value, queue,
                   entryIdx, rendered_content, disk, disk0>>
    /\ UNCHANGED <<fieldVars, processVars>>

\* One call of plugin.on_paths(temp_paths): a list returned replaces temp_paths.
OnPaths ==
    /\ InLoop("on_paths")
    /\ LET modified_paths == on_paths(plugins[plugIdx], temp_paths, metadata)
       IN  /\ Log(Event("on_paths", plugIdx, 0, <<>>, PathsRet(temp_paths), modified_paths))
           /\ IF modified_paths.flag \notin {"None", "list"}
              THEN /\ Fail(modified_paths.flag)
                   /\ UNCHANGED <<temp_paths, plugIdx>>
              ELSE /\ temp_paths' = IF modified_paths.flag = "list"
                                    THEN modified_paths.paths ELSE temp_paths
                   /\ plugIdx' = plugIdx + 1
                   /\ UNCHANGED <<pc, error>>
    /\ UNCHANGED <<registry, scripts, plugins, data, metadata, fieldIdx, value, queue,
                   entryIdx, rendered_content, disk, disk0>>
    /\ UNCHANGED <<fieldVars, processVars>>

\* The creation loop left one entry early (an off-by-one in the loop's bound).
GotoEntryShort(i, list) ==
    /\ entryIdx' = i
    /\ plugIdx' = 1
    /\ pc' = IF i >= Len(list) THEN "finalize" ELSE "pre_create"

\* The creation loop moves to entry i of the sorted list, or to the finalize loop.
GotoEntry(i, list) ==
    /\ entryIdx' = i
    /\ plugIdx' = 1
    /\ pc' = IF i > Len(list) THEN "finalize" ELSE "pre_create"

\* `for temp_path in sorted(temp_paths, key=lambda p: p.rendered)` starts.
SortPaths ==
    /\ PastLoop("on_paths")
    /\ queue' = Sorted(temp_paths)
    /\ GotoEntry(1, Sorted(temp_paths))
    /\ UNCHANGED <<registry, scripts, plugins, data, metadata, fieldIdx, value,
                   temp_paths, rendered_content, disk, disk0, error, trace>>
    /\ UNCHANGED <<fieldVars, processVars>>

\* One call of plugin.pre_create(temp_path).
PreCreate ==
    /\ InLoop("pre_create")
    /\ Log(Event("pre_create", plugIdx, entryIdx, Entry.rendered, NoneRet, NoneRet))
    /\ plugIdx' = plugIdx + 1
    /\ UNCHANGED <<pc, registry, scripts, plugins, data, metadata, fieldIdx, value,
                   temp_paths, queue, entryIdx, rendered_content, disk, disk0, error>>
    /\ UNCHANGED <<fieldVars, processVars>>

\* The entry is materialized and the creation loop goes on as if the post_create
\* loop were over: no post_create hook is called.
CreatedQuietly ==
    /\ Log(Event("create", 0, entryIdx, Entry.rendered, NoneRet, NoneRet))
    /\ pc' = "post_create"
    /\ plugIdx' = Len(plugins) + 1
    /\ UNCHANGED error

\* The entry is materialized: the trace says so and the post_create loop starts.
Created ==
    /\ Log(Event("create", 0, entryIdx, Entry.rendered, NoneRet, NoneRet))
    /\ pc' = "post_create"
    /\ plugIdx' = 1
    /\ UNCHANGED error

\* A directory entry made with mkdir(parents=True, exist_ok=True) and no check of
\* the target: an existing directory is accepted.
CreateDirExistOk ==
    /\ PastLoop("pre_create")
    /\ Entry.is_dir
    /\ IF MkdirBlocked(disk, Entry.rendered)
          \/ (Exists(disk, Entry.rendered) /\ disk[Entry.rendered].kind = "file")
       THEN /\ Fail("OSError")
            /\ UNCHANGED <<disk, plugIdx, trace>>
       ELSE /\ disk' = IF Exists(disk, Entry.rendered) THEN disk
                       ELSE Mkdir(disk, Entry.rendered, Entry.raw)
            /\ Created
    /\ UNCHANGED <<registry, scripts, plugins, data, metadata, fieldIdx, value,
                   temp_paths, queue, entryIdx, rendered_content, disk0>>
    /\ UNCHANGED <<fieldVars, processVars>>

\* A directory entry: PathAlreadyExists when the target exists, else mkdir.
CreateDir ==
    /\ PastLoop("pre_create")
    /\ Entry.is_dir
    /\ IF Exists(disk, Entry.rendered)
       THEN /\ Fail("PathAlreadyExists")
            /\ UNCHANGED <<disk, plugIdx, trace>>
       ELSE IF MkdirBlocked(disk, Entry.rendered)
       THEN /\ Fail("OSError")
            /\ UNCHANGED <<disk, plugIdx, trace>>
       ELSE /\ disk' = Mkdir(disk, Entry.rendered, Entry.raw)
            /\ Created
    /\ UNCHANGED <<registry, scripts, plugins, data, metadata, fieldIdx, value,
                   temp_paths, queue, entryIdx, rendered_content, disk0>>
    /\ UNCHANGED <<fieldVars, processVars>>

\* A file entry with bytes for content, handled as text is: the bytes go through
\* the on_render loop before they are written.
WriteBytesHooked ==
    /\ PastLoop("pre_create")
    /\ ~Entry.is_dir
    /\ Entry.content.bin
    /\ IF ~Exists(disk, Parent(Entry.rendered))
       THEN /\ Fail("RuntimeError")
            /\ UNCHANGED <<rendered_content, plugIdx>>
       ELSE /\ rendered_content' = <<Entry.content.tpl.s>>
            /\ pc' = "on_render"
            /\ plugIdx' = 1
            /\ UNCHANGED error
    /\ UNCHANGED <<registry, scripts, plugins, data, metadata, fieldIdx, value,
                   temp_paths, queue, entryIdx, disk, disk0, trace>>
    /\ UNCHANGED <<fieldVars, processVars>>

\* A file entry with bytes for content: they are written as they are.
WriteBytes ==
    /\ PastLoop("pre_create")
    /\ ~Entry.is_dir
    /\ Entry.content.bin
    /\ IF ~Exists(disk, Parent(Entry.rendered))
       THEN /\ Fail("RuntimeError")
            /\ UNCHANGED <<disk, plugIdx, trace>>
       ELSE IF WriteBlocked(disk, Entry.rendered)
       THEN /\ Fail("OSError")
            /\ UNCHANGED <<disk, plugIdx, trace>>
       ELSE /\ disk' = Put(disk, Entry.rendered,
                           Node("file", <<Entry.content.tpl.s>>, Entry.raw))
            /\ Created
    /\ UNCHANGED <<registry, scripts, plugins, data, metadata, fieldIdx, value,
                   temp_paths, queue, entryIdx, rendered_content, disk0>>
    /\ UNCHANGED <<fieldVars, processVars>>

\* A file entry with text for content, the target opened for writing before the
\* text is rendered: a rendering that fails leaves an empty file behind.
RenderContentLate ==
    /\ PastLoop("pre_create")
    /\ ~Entry.is_dir
    /\ ~Entry.content.bin
    /\ IF ~Exists(disk, Parent(Entry.rendered))
       THEN /\ Fail("RuntimeError")
            /\ UNCHANGED <<rendered_content, plugIdx, disk>>
       ELSE IF ~JinjaRender(Entry.content.tpl, metadata).ok
       THEN /\ Fail("TemplateError")
            /\ disk' = IF WriteBlocked(disk, Entry.rendered) THEN disk
                       ELSE Put(disk, Entry.rendered, Node("file", <<>>, Entry.raw))
            /\ UNCHANGED <<rendered_content, plugIdx>>
       ELSE /\ rendered_content' = <<JinjaRender(Entry.content.tpl, metadata).s>>
            /\ pc' = "on_render"
            /\ plugIdx' = 1
            /\ UNCHANGED <<error, disk>>
    /\ UNCHANGED <<registry, scripts, plugins, data, metadata, fieldIdx, value,
                   temp_paths, queue, entryIdx, disk0, trace>>
    /\ UNCHANGED <<fieldVars, processVars>>

\* A file entry with text for content: the text is rendered, then the on_render loop
\* starts.
RenderContent ==
    /\ PastLoop("pre_create")
    /\ ~Entry.is_dir
    /\ ~Entry.content.bin
    /\ IF ~Exists(disk, Parent(Entry.rendered))
       THEN /\ Fail("RuntimeError")
            /\ UNCHANGED <<rendered_content, plugIdx>>
       ELSE IF ~JinjaRender(Entry.content.tpl, metadata).ok
       THEN /\ Fail("TemplateError")
            /\ UNCHANGED <<rendered_content, plugIdx>>
       ELSE /\ rendered_content' = <<JinjaRender(Entry.content.tpl, metadata).s>>
            /\ pc' = "on_render"
            /\ plugIdx' = 1
            /\ UNCHANGED error
    /\ UNCHANGED <<registry, scripts, plugins, data, metadata, fieldIdx, value,
                   temp_paths, queue, entryIdx, disk, disk0, trace>>
    /\ UNCHANGED <<fieldVars, processVars>>

\* on_render called, the text it returns not assigned to rendered_content.
OnRenderDropped ==
    /\ InLoop("on_render")
    /\ Log(Event("on_render", plugIdx, entryIdx, Entry.rendered,
                 TextRet(rendered_content), on_render(plugins[plugIdx], rendered_content)))
    /\ plugIdx' = plugIdx + 1
    /\ UNCHANGED <<pc, registry, scripts, plugins, data, metadata, fieldIdx, value,
                   temp_paths, queue, entryIdx, rendered_content, disk, disk0, error>>
    /\ UNCHANGED <<fieldVars, processVars>>

\* One call of plugin.on_render(temp_path, rendered_content): a text returned
\* replaces rendered_content.
OnRender ==
    /\ InLoop("on_render")
    /\ LET modified_content == on_render(plugins[plugIdx], rendered_content)
       IN  /\ Log(Event("on_render", plugIdx, entryIdx, Entry.rendered,
                        TextRet(rendered_content), modified_content))
           /\ rendered_content' = IF modified_content.flag = "str"
                                  THEN modified_content.text ELSE rendered_content
    /\ plugIdx' = plugIdx + 1
    /\ UNCHANGED <<pc, registry, scripts, plugins, data, metadata, fieldIdx, value,
                   temp_paths, queue, entryIdx, disk, disk0, error>>
    /\ UNCHANGED <<fieldVars, processVars>>

\* The text written to a target opened for exclusive creation: a file that is
\* there is not overwritten.
WriteTextExclusive ==
    /\ PastLoop("on_render")
    /\ IF WriteBlocked(disk, Entry.rendered)
       THEN /\ Fail("OSError")
            /\ UNCHANGED <<disk, plugIdx, trace>>
       ELSE IF Exists(disk, Entry.rendered)
       THEN /\ Fail("FileExistsError")
            /\ UNCHANGED <<disk, plugIdx, trace>>
       ELSE /\ disk' = Put(disk, Entry.rendered, Node("file", rendered_content, Entry.raw))
            /\ Created
    /\ UNCHANGED <<registry, scripts, plugins, data, metadata, fieldIdx, value,
                   temp_paths, queue, entryIdx, rendered_content, disk0>>
    /\ UNCHANGED <<fieldVars, processVars>>

\* target_path.write_text(rendered_content)
WriteText ==
    /\ PastLoop("on_render")
    /\ IF WriteBlocked(disk, Entry.rendered)
       THEN /\ Fail("OSError")
            /\ UNCHANGED <<disk, plugIdx, trace>>
       ELSE /\ disk' = Put(disk, Entry.rendered, Node("file", rendered_content, Entry.raw))
            /\ Created
    /\ UNCHANGED <<registry, scripts, plugins, data, metadata, fieldIdx, value,
                   temp_paths, queue, entryIdx, rendered_content, disk0>>
    /\ UNCHANGED <<fieldVars, processVars>>

\* One call of plugin.post_create(temp_path).
PostCreate ==
    /\ InLoop("post_create")
    /\ Log(Event("post_create", plugIdx, entryIdx, Entry.rendered, NoneRet, NoneRet))
    /\ plugIdx' = plugIdx + 1
    /\ UNCHANGED <<pc, registry, scripts, plugins, data, metadata, fieldIdx, value,
                   temp_paths, queue, entryIdx, rendered_content, disk, disk0, error>>
    /\ UNCHANGED <<fieldVars, processVars>>

\* The creation loop goes on with the next entry.
NextEntry ==
    /\ PastLoop("post_create")
    /\ GotoEntry(entryIdx + 1, queue)
    /\ UNCHANGED <<registry, scripts, plugins, data, metadata, fieldIdx, value,
                   temp_paths, queue, rendered_content, disk, disk0, error, trace>>
    /\ UNCHANGED <<fieldVars, processVars>>

\* ExamplePlugin.finalize: (output_dir / metadata['slug'] / 'finalize.txt').touch();
\* the exception it raises, or "none".
TouchError(md, d) ==
    IF ~MetaHas(md, Slug) THEN "KeyError"
    ELSE IF MetaGet(md, Slug).t # "str" THEN "TypeError"
    ELSE LET p == PathOf(<<MetaGet(md, Slug).v, "finalize.txt">>)
         IN  IF ~Exists(d, Parent(p)) \/ d[Parent(p)].kind = "file"
             THEN "OSError" ELSE "none"

\* touch(): a file that is there stays as it is, one that is not is created empty.
Touch(md, d) ==
    LET p == PathOf(<<MetaGet(md, Slug).v, "finalize.txt">>)
    IN  IF Exists(d, p) THEN d ELSE Put(d, p, Node("file", <<>>, <<>>))

\* One call of plugin.finalize().
Finalize ==
    /\ InLoop("finalize")
    /\ Log(Event("finalize", plugIdx, 0, <<>>, NoneRet, NoneRet))
    /\ IF ~plugins[plugIdx].finalize
       THEN /\ plugIdx' = plugIdx + 1
            /\ UNCHANGED <<pc, disk, error>>
       ELSE IF TouchError(metadata, disk) # "none"
       THEN /\ Fail(TouchError(metadata, disk))
            /\ UNCHANGED <<disk, plugIdx>>
       ELSE /\ disk' = Touch(metadata, disk)
            /\ plugIdx' = plugIdx + 1
            /\ UNCHANGED <<pc, error>>
    /\ UNCHANGED <<registry, scripts, plugins, data, metadata, fieldIdx, value,
                   temp_paths, queue, entryIdx, rendered_content, disk0>>
    /\ UNCHANGED <<fieldVars, processVars>>

\* render() returns.
RenderEnd ==
    /\ PastLoop("finalize")
    /\ pc' = "done"
    /\ UNCHANGED <<registry, scripts, plugins, data, metadata, fieldIdx, plugIdx, value,
                   temp_paths, queue, entryIdx, rendered_content, disk, disk0, error,
                   trace>>
    /\ UNCHANGED <<fieldVars, processVars>>

----------------------------------------------------------------------------
(* The run *)

\* The first run is over and the same TexJam runs a second time in the same process:
\* load_plugins(); prompt(data); render(), with the same data. TexJamPlugin.plugins,
\* self.plugins, self.metadata and the output directory are as the run left them.
\* TexJamPlugin.plugins grows with every run: the model lets it hold MaxPlugins
\* classes at most.
RunAgain ==
    /\ pc = "done"
    /\ runs = 1
    /\ Len(registry) + Len(scripts) <= MaxPlugins
    /\ runs' = runs + 1
    /\ pc' = "load"
    /\ fieldIdx' = 1
    /\ plugIdx' = 1
    /\ value' = StrV("")
    /\ temp_paths' = <<>>
    /\ queue' = <<>>
    /\ entryIdx' = 1
    /\ rendered_content' = <<>>
    /\ disk0' = disk
    /\ trace' = <<>>
    /\ UNCHANGED <<registry, scripts, plugins, data, metadata, disk, error>>
    /\ UNCHANGED <<fieldVars, source_dir, first>>

Next ==
    \/ LoadPlugins
    \/ OnLoad
    \/ PromptBegin
    \/ PrePrompt
    \/ UsePreset
    \/ PromptMetaField
    \/ PromptCancel
    \/ PostPrompt
    \/ Store
    \/ RenderBegin
    \/ Initialize
    \/ GatherPaths
    \/ OnPaths
    \/ SortPaths
    \/ PreCreate
    \/ CreateDir
    \/ WriteBytes
    \/ RenderContent
    \/ OnRender
    \/ WriteText
    \/ PostCreate
    \/ NextEntry
    \/ Finalize
    \/ RenderEnd
    \/ RunAgain

Spec == Init /\ [][Next]_vars

----------------------------------------------------------------------------
(* One field of the configuration, taken alone: Python values *)

NoneV == Val("none", "")

FloatV(s) == Val("float", s)

\* A Python list of values.
ListV(l) == [t |-> "list", v |-> l]

\* isinstance(val, (T1, T2, ...)) for Ts a set of type names; bool is a subclass of int.
IsInstance(val, Ts) == val.t \in Ts \/ (val.t = "bool" /\ "int" \in Ts)

\* A key left out of a dict.
Absent == Val("absent", "")

\* The keys a declaration may hold in the model. min_length and min_value are
\* options of texjam/config/meta.py's MetaStr and MetaNumber, and are unknown to
\* texjam/config.py's MetaField.
OptionKeys == {"type", "default", "choices", "required", "min_length", "min_value"}

\* The dict holding the options that are not Absent.
DictOf(type, default, choices, required, min_length, min_value) ==
    LET all == [k \in OptionKeys |->
                   CASE k = "type" -> type
                     [] k = "default" -> default
                     [] k = "choices" -> choices
                     [] k = "required" -> required
                     [] k = "min_length" -> min_length
                     [] OTHER -> min_value]
    IN  [t |-> "dict", d |-> [k \in {x \in OptionKeys : all[x].t # "absent"} |-> all[k]]]

\* dict.get(k)
Get(o, k) == IF k \in DOMAIN o.d THEN o.d[k] ELSE NoneV

\* The text "((( previous_key )))": a string with markup in it.
PreviousKey == "((( previous_key )))"

TypeOptions == {Absent, StrV("str"), StrV("int"), StrV("float"), StrV("bool"), StrV("number")}

DefaultOptions ==
    {Absent, StrV("x"), StrV(PreviousKey), IntV("2"), IntV("5"), FloatV("2.5"), BoolV("True")}

ChoicesOptions ==
    {Absent, ListV(<<>>), ListV(<<IntV("5"), IntV("2")>>), ListV(<<StrV("x"), StrV("2")>>),
     ListV(<<BoolV("True")>>)}

RequiredOptions == {Absent, BoolV("True"), BoolV("False")}

MinLengthOptions == {Absent, IntV("2")}

MinValueOptions == {Absent, IntV("5")}

\* The raw declarations of the model: null, bare scalars, a bare list, and records.
Declarations ==
    {NoneV, StrV("x"), IntV("2"), FloatV("2.5"), BoolV("True"), ListV(<<StrV("x"), StrV("2")>>)}
    \cup {DictOf(ty, de, ch, re, ml, Absent) :
            ty \in TypeOptions, de \in DefaultOptions, ch \in ChoicesOptions,
            re \in RequiredOptions, ml \in MinLengthOptions}
    \cup {DictOf(ty, de, ch, re, Absent, mv) :
            ty \in TypeOptions, de \in DefaultOptions, ch \in ChoicesOptions,
            re \in RequiredOptions, mv \in MinValueOptions}

\* str.isidentifier() and keyword.iskeyword() on the keys of the model.
IsIdentifier(key) == key \in {"key_value", "class"}

IsKeyword(key) == key = "class"

\* The (key, declaration) items of the model: every declaration under a good key,
\* and a null declaration under a keyword and under a key that is no identifier.
Items ==
    {[key |-> "key_value", raw |-> d] : d \in Declarations}
    \cup {[key |-> k, raw |-> NoneV] : k \in {"class", "my-key"}}

----------------------------------------------------------------------------
(* texjam/config.py: MetaField.parse_input *)

\* What a call gives: the value it returns, or the exception it raises.
Returned(val) == [ok |-> TRUE, val |-> val, exc |-> "none"]

Raised(exc) == [ok |-> FALSE, val |-> NoneV, exc |-> exc]

\* A MetaField that keeps the class default `required: bool = True` whatever is passed.
MetaFieldRequired(key, type, default, choices, required) ==
    [cls |-> "MetaField", key |-> key, type |-> type, default |-> default,
     choices |-> choices, required |-> TRUE]

\* A MetaField of texjam/config.py.
MetaField(key, type, default, choices, required) ==
    [cls |-> "MetaField", key |-> key, type |-> type, default |-> default,
     choices |-> choices, required |-> required]

\* The type names parse_input supports.
SupportedTypes == {"str", "int", "float", "bool"}

\* MetaField.parse_input((key, obj)): the descriptor, or the exception raised.
parse_input(key, o) ==
    IF ~IsIdentifier(key) \/ IsKeyword(key) THEN Raised("ValueError")
    ELSE IF o.t = "dict"
    THEN IF \E k \in DOMAIN o.d : k \notin {"prompt", "type", "default", "choices", "required"}
         THEN Raised("ValueError")
         ELSE LET type_str == Get(o, "type")
                  default == Get(o, "default")
                  choices == Get(o, "choices")
                  required == Get(o, "required")
              IN  IF type_str.t # "str" \/ type_str.v \notin SupportedTypes
                  THEN Raised("AssertionError")
                  ELSE IF default.t # "none" /\ ~IsInstance(default, {"str", type_str.v})
                  THEN Raised("AssertionError")
                  ELSE IF choices.t # "none" /\
                          (\/ choices.t # "list"
                           \/ Len(choices.v) = 0
                           \/ type_str.v = "bool"
                           \/ \E i \in 1..Len(choices.v) :
                                 ~IsInstance(choices.v[i], {"str", type_str.v}))
                  THEN Raised("AssertionError")
                  ELSE IF required.t # "none" /\
                          (required.t # "bool" \/ (required.v = "True" /\ default.t # "none"))
                  THEN Raised("AssertionError")
                  ELSE Returned(MetaField(key, type_str.v, default, choices,
                                          IF required.t # "none" THEN required.v = "True"
                                          ELSE default.t = "none"))
    ELSE IF o.t = "none" THEN Returned(MetaField(key, "str", NoneV, NoneV, TRUE))
    ELSE IF IsInstance(o, {"str", "int", "float", "bool"})
    THEN Returned(MetaField(key, o.t, o, NoneV, FALSE))
    ELSE Raised("AssertionError")

----------------------------------------------------------------------------
(* texjam/config/meta.py: parse_meta_field *)

\* The descriptors of texjam/config/meta.py. max_length and max_value, which no
\* declaration of the model sets, are left out.
StrField(required, default, min_length) ==
    [cls |-> "MetaStr", required |-> required, default |-> default,
     min_length |-> min_length]

NumberField(required, default, min_value, is_integer) ==
    [cls |-> "MetaNumber", required |-> required, default |-> default,
     min_value |-> min_value, is_integer |-> is_integer]

BoolField(required, default) ==
    [cls |-> "MetaBool", required |-> required, default |-> default]

ChoiceField(required, default, choices) ==
    [cls |-> "MetaChoice", required |-> required, default |-> default,
     choices |-> choices]

\* pydantic's validation of a value given for a field annotated `float | int | None`:
\* the values it may store (none: ValidationError). A bool is taken as a number, 1
\* or 1.0 according to the member of the union that accepts it.
AsNumber(val) ==
    CASE val.t \in {"int", "float", "none"} -> {val}
      [] val.t = "bool" -> IF val.v = "True" THEN {IntV("1"), FloatV("1.0")}
                           ELSE {IntV("0"), FloatV("0.0")}
      [] OTHER -> {}

\* `required: bool = False`
RequiredOf(o) == Get(o, "required").t = "bool" /\ Get(o, "required").v = "True"

\* MetaStr(**field): options the class does not declare are ignored.
NewMetaStr(o) ==
    IF Get(o, "default").t \notin {"str", "none"} \/ Get(o, "min_length").t \notin {"int", "none"}
    THEN {Raised("ValidationError")}
    ELSE {Returned(StrField(RequiredOf(o),
                            IF "default" \in DOMAIN o.d THEN Get(o, "default") ELSE StrV(""),
                            Get(o, "min_length")))}

\* MetaNumber(**field)
NewMetaNumber(o, is_integer) ==
    IF AsNumber(Get(o, "default")) = {} \/ AsNumber(Get(o, "min_value")) = {}
    THEN {Raised("ValidationError")}
    ELSE {Returned(NumberField(RequiredOf(o), de, mv, is_integer)) :
            de \in AsNumber(Get(o, "default")), mv \in AsNumber(Get(o, "min_value"))}

\* MetaBool(**field)
NewMetaBool(o) ==
    IF Get(o, "default").t \notin {"bool", "none"} THEN {Raised("ValidationError")}
    ELSE {Returned(BoolField(RequiredOf(o),
                             IF "default" \in DOMAIN o.d THEN Get(o, "default")
                             ELSE BoolV("False")))}

\* MetaChoice(**field): `choices: list[str]`, not empty.
NewMetaChoice(o) ==
    LET choices == Get(o, "choices")
    IN  IF choices.t # "list" THEN {Raised("ValidationError")}
        ELSE IF Len(choices.v) = 0 \/ \E i \in 1..Len(choices.v) : choices.v[i].t # "str"
        THEN {Raised("ValidationError")}
        ELSE {Returned(ChoiceField(RequiredOf(o), NoneV, choices))}

\* A dict of keyword arguments.
Kwargs(f) == [t |-> "dict", d |-> f]

\* validate_meta_fields' check of the name, then parse_meta_field(field): the
\* descriptors it may return, or the exception raised. isinstance(field, int) holds
\* for a bool, so a bare bool takes the int branch. Of the types of a record, path,
\* choice and select are in no declaration of the model.
parse_meta_field(key, o) ==
    IF ~IsIdentifier(key) \/ IsKeyword(key) THEN {Raised("ValueError")}
    ELSE IF o.t = "dict"
    THEN IF Get(o, "type") = StrV("str") THEN NewMetaStr(o)
         ELSE IF Get(o, "type") = StrV("number") THEN NewMetaNumber(o, FALSE)
         ELSE IF Get(o, "type") = StrV("bool") THEN NewMetaBool(o)
         ELSE {Raised("ValueError")}
    ELSE IF o.t = "str" THEN NewMetaStr(Kwargs([k \in {"default"} |-> o]))
    ELSE IF IsInstance(o, {"int"})
    THEN NewMetaNumber(Kwargs([k \in {"default"} |-> o]), TRUE)
    ELSE IF o.t = "float" THEN NewMetaNumber(Kwargs([k \in {"default"} |-> o]), FALSE)
    ELSE IF o.t = "bool" THEN NewMetaBool(Kwargs([k \in {"default"} |-> o]))
    ELSE IF o.t = "list" THEN NewMetaChoice(Kwargs([k \in {"choices"} |-> o]))
    ELSE {Raised("ValueError")}

----------------------------------------------------------------------------
(* Python conversions and comparisons on the texts and numbers of the model *)

\* The lines the user may enter.
Lines == {"", " ", "x", "2", "5", "2.5", "Yes"}

\* The line is taken as it is read, blanks and all.
StripNothing(s) == s

\* str.strip() and str.lower() on those lines.
Strip(s) == IF s = " " THEN "" ELSE s

Lower(s) == IF s = "Yes" THEN "yes" ELSE s

\* len(s)
TextLen(s) ==
    CASE s = "" -> 0
      [] s \in {" ", "x", "2", "5"} -> 1
      [] s \in {"2.5", "Yes", "0.0", "1.0", "2.0", "5.0"} -> 3
      [] OTHER -> 4

\* The texts int() accepts, and for those float() accepts the str() of the float.
IntTexts == {"0", "1", "2", "5"}

FloatText(s) ==
    CASE s = "0" -> "0.0"
      [] s = "1" -> "1.0"
      [] s = "2" -> "2.0"
      [] s = "5" -> "5.0"
      [] OTHER -> s

FloatTexts == IntTexts \cup {"2.5", "0.0", "1.0", "2.0", "5.0"}

\* T(s) for a type T and a text s: int(s) and float(s) raise ValueError on a text
\* that is no number, bool(s) is True for every text but the empty one.
Convert(T, s) ==
    CASE T = "str" -> Returned(StrV(s))
      [] T = "int" -> IF s \in IntTexts THEN Returned(IntV(s)) ELSE Raised("ValueError")
      [] T = "float" -> IF s \in FloatTexts THEN Returned(FloatV(FloatText(s)))
                        ELSE Raised("ValueError")
      [] OTHER -> Returned(BoolV(IF s = "" THEN "False" ELSE "True"))

\* Ten times the number a numeric value stands for.
Mag(val) ==
    CASE val.t = "bool" -> IF val.v = "True" THEN 10 ELSE 0
      [] val.v \in {"0", "0.0"} -> 0
      [] val.v \in {"1", "1.0"} -> 10
      [] val.v \in {"2", "2.0"} -> 20
      [] val.v = "2.5" -> 25
      [] OTHER -> 50

IsNumber(val) == val.t \in {"int", "float", "bool"}

\* a == b in Python: numbers by what they stand for (True == 1 == 1.0).
PyEq(a, b) ==
    IF IsNumber(a) /\ IsNumber(b) THEN Mag(a) = Mag(b)
    ELSE a.t = b.t /\ a.v = b.v

\* A text of a declaration read as a template.
AsTemplate(s) == IF s = PreviousKey THEN Var("previous_key") ELSE Lit(s)

----------------------------------------------------------------------------
(* texjam/config.py: MetaField.prompt *)

\* The default, rendered against the metadata and converted to the field's type.
PreparedDefault(f, md) ==
    IF f.default.t = "none" THEN Returned(NoneV)
    ELSE IF f.default.t = "str"
    THEN IF ~JinjaRender(AsTemplate(f.default.v), md).ok THEN Raised("TemplateError")
         ELSE Convert(f.type, JinjaRender(AsTemplate(f.default.v), md).s)
    ELSE Returned(f.default)

\* The choices, each rendered and converted likewise.
PreparedChoices(f, md) ==
    IF f.choices.t = "none" THEN Returned(NoneV)
    ELSE LET one(c) == IF c.t = "str"
                       THEN Convert(f.type, JinjaRender(AsTemplate(c.v), md).s)
                       ELSE Returned(c)
         IN  IF \E i \in 1..Len(f.choices.v) : ~one(f.choices.v[i]).ok
             THEN Raised("ValueError")
             ELSE Returned(ListV([i \in 1..Len(f.choices.v) |-> one(f.choices.v[i]).val]))

\* The words taken for True and for False.
YesWords == {"yes", "y", "true", "t", "1"}

NoWords == {"no", "n", "false", "f", "0"}

\* `input_value not in choices`
InChoices(val, choices) == \E i \in 1..Len(choices.v) : PyEq(val, choices.v[i])

\* One round of the `while True` loop on the line read: the value returned, or the
\* reason the line is rejected and the loop goes round again. A line is taken
\* whether or not its value is among the choices.
RoundAnyChoice(f, md, line) ==
    LET text == Strip(line)
    IN  IF text = ""
        THEN IF f.required THEN Raised("required") ELSE Returned(PreparedDefault(f, md).val)
        ELSE IF f.type = "bool"
        THEN IF Lower(text) \in YesWords THEN Returned(BoolV("True"))
             ELSE IF Lower(text) \in NoWords THEN Returned(BoolV("False"))
             ELSE Raised("ValueError")
        ELSE Convert(f.type, text)

\* One round of the `while True` loop on the line read.
Round(f, md, line) ==
    LET parsed == RoundAnyChoice(f, md, line)
        choices == PreparedChoices(f, md).val
    IN  IF ~parsed.ok THEN parsed
        ELSE IF choices.t # "none" /\ ~InChoices(parsed.val, choices) THEN Raised("choices")
        ELSE parsed

----------------------------------------------------------------------------
(* texjam/config/meta.py: Prompter.prompt_meta_field on the descriptors above *)

\* The text the prompt is pre-filled with: a str default rendered, any other
\* default as str() gives it.
default_value(f, md) ==
    IF f.default.t = "str" THEN JinjaRender(AsTemplate(f.default.v), md)
    ELSE [ok |-> TRUE, s |-> IF f.default.t = "none" THEN "None" ELSE f.default.v]

\* field._question_validate(answer) raises no ValidationError.
question_validate(f, answer) ==
    /\ ~(f.required /\ answer = "")
    /\ CASE f.cls = "MetaStr" ->
              ~(f.min_length.t # "none" /\ TextLen(answer) * 10 < Mag(f.min_length))
         [] f.cls = "MetaNumber" ->
              /\ Convert(IF f.is_integer THEN "int" ELSE "float", answer).ok
              /\ ~(f.min_value.t # "none" /\
                   Mag(Convert(IF f.is_integer THEN "int" ELSE "float", answer).val)
                      < Mag(f.min_value))
         [] OTHER -> TRUE

\* field._convert_answer(answer)
convert_answer(f, answer) ==
    IF f.cls = "MetaNumber"
    THEN Convert(IF f.is_integer THEN "int" ELSE "float", answer.v).val
    ELSE answer

\* What the user can submit: a text prompt takes the pre-filled text or a line typed
\* instead, a confirm prompt yes or no, a select prompt one of the choices.
Answers(f, md) ==
    CASE f.cls \in {"MetaStr", "MetaNumber"} ->
            {StrV(t) : t \in Lines \cup {default_value(f, md).s}}
      [] f.cls = "MetaBool" -> {BoolV("True"), BoolV("False")}
      [] OTHER -> {f.choices.v[i] : i \in 1..Len(f.choices.v)}

----------------------------------------------------------------------------
(* One field taken alone: it is built from its declaration, then prompted *)

\* How many answers one prompt reads at most.
MaxReads == 2

\* The run's variables a field taken alone leaves as they are.
fieldFrame == <<pc, registry, scripts, plugins, data, fieldIdx, plugIdx, value, temp_paths,
                queue, entryIdx, rendered_content, disk, disk0, trace, metadata, obj, impl,
                processVars>>

\* The field is one item of the configuration; the metadata collected so far holds
\* one earlier key, or nothing: previous_key is then a key not resolved yet.
FieldInit ==
    /\ pc = "field"
    /\ registry = <<>>
    /\ scripts = <<>>
    /\ plugins = <<>>
    /\ data = NoData
    /\ metadata \in {<<>>} \cup {MetaSet(<<>>, "previous_key", StrV(t)) : t \in {"2", "x"}}
    /\ fieldIdx = 1
    /\ plugIdx = 1
    /\ value = StrV("")
    /\ temp_paths = <<>>
    /\ queue = <<>>
    /\ entryIdx = 1
    /\ rendered_content = <<>>
    /\ disk = (<<>> :> Node("none", <<>>, <<>>))
    /\ disk0 = disk
    /\ error = "none"
    /\ trace = <<>>
    /\ obj \in Items
    /\ impl \in {"config", "meta"}
    /\ meta_field = NoField
    /\ fpc = "parse"
    /\ reads = 0
    /\ user_input = ""
    /\ input_value = NoneV
    /\ source_dir = TRUE
    /\ runs = 1
    /\ first = [metadata |-> <<>>, asked |-> <<>>]

\* The call returns r: the descriptor is kept, or the exception ends the field.
Built(r) ==
    /\ meta_field' = IF r.ok THEN r.val ELSE NoField
    /\ fpc' = IF r.ok THEN "built" ELSE "raised"
    /\ error' = r.exc
    /\ UNCHANGED <<fieldFrame, reads, user_input, input_value>>

\* texjam/config.py: MetaField.parse_input(item)
ParseInput ==
    /\ fpc = "parse" /\ impl = "config"
    /\ Built(parse_input(obj.key, obj.raw))

\* texjam/config/meta.py: validate_meta_fields on the item
ParseMetaField ==
    /\ fpc = "parse" /\ impl = "meta"
    /\ \E r \in parse_meta_field(obj.key, obj.raw) : Built(r)

\* MetaField.prompt, up to the loop: the default and the choices are rendered and
\* converted, and a conversion that fails raises out of prompt().
Prompt ==
    /\ fpc = "built" /\ impl = "config"
    /\ LET de == PreparedDefault(meta_field, metadata)
           ch == PreparedChoices(meta_field, metadata)
       IN  /\ fpc' = IF de.ok /\ ch.ok THEN "input" ELSE "raised"
           /\ error' = IF ~de.ok THEN de.exc ELSE ch.exc
    /\ UNCHANGED <<fieldFrame, meta_field, reads, user_input, input_value>>

\* The outcome r of one answer: the value is returned, or the prompt asks again.
Answered(line, r) ==
    /\ reads' = reads + 1
    /\ user_input' = line
    /\ fpc' = IF r.ok THEN "returned" ELSE "input"
    /\ input_value' = IF r.ok THEN r.val ELSE input_value
    /\ UNCHANGED <<fieldFrame, meta_field, error>>

\* MetaField.prompt: one round of the loop, a value outside the choices taken.
ReadLineAnyChoice ==
    /\ fpc = "input" /\ impl = "config" /\ reads < MaxReads
    /\ \E line \in Lines : Answered(line, RoundAnyChoice(meta_field, metadata, line))

\* MetaField.prompt: one round of the loop, on a line read by input().
ReadLine ==
    /\ fpc = "input" /\ impl = "config" /\ reads < MaxReads
    /\ \E line \in Lines : Answered(line, Round(meta_field, metadata, line))

\* Prompter.prompt_meta_field, up to questionary.prompt: the default is rendered.
\* A select prompt whose default is none of its choices opens on the first choice
\* or raises ValueError, according to the version of questionary.
PromptDict ==
    /\ fpc = "built" /\ impl = "meta"
    /\ \/ /\ fpc' = IF default_value(meta_field, metadata).ok THEN "input" ELSE "raised"
          /\ error' = IF default_value(meta_field, metadata).ok THEN "none"
                      ELSE "TemplateError"
       \/ /\ meta_field.cls = "MetaChoice"
          /\ StrV(default_value(meta_field, metadata).s) \notin Answers(meta_field, metadata)
          /\ fpc' = "raised"
          /\ error' = "ValueError"
    /\ UNCHANGED <<fieldFrame, meta_field, reads, user_input, input_value>>

\* questionary.prompt: the user submits an answer; it is validated, and converted
\* when it is valid, and the question stays open when it is not.
Submit ==
    /\ fpc = "input" /\ impl = "meta" /\ reads < MaxReads
    /\ \E answer \in Answers(meta_field, metadata) :
          Answered(answer.v,
                   IF question_validate(meta_field, answer.v)
                   THEN Returned(convert_answer(meta_field, answer))
                   ELSE Raised("ValidationError"))

\* Ctrl+C at the prompt: input() raises KeyboardInterrupt, questionary.prompt
\* returns no answer and prompt_meta_field raises typer.Abort.
Interrupt ==
    /\ fpc = "input"
    /\ fpc' = "cancelled"
    /\ error' = IF impl = "config" THEN "KeyboardInterrupt" ELSE "Abort"
    /\ UNCHANGED <<fieldFrame, meta_field, reads, user_input, input_value>>

FieldNext ==
    \/ ParseInput
    \/ ParseMetaField
    \/ Prompt
    \/ ReadLine
    \/ PromptDict
    \/ Submit
    \/ Interrupt

FieldSpec == FieldInit /\ [][FieldNext]_vars

----------------------------------------------------------------------------
(* Reading the trace *)

\* The positions of the trace that hold an event of kind ev.
At(ev) == {i \in 1..Len(trace) : trace[i].ev = ev}

\* The positions that hold an event of kind ev about field or entry number n.
AtN(ev, n) == {i \in At(ev) : trace[i].n = n}

Min(S) == CHOOSE x \in S : \A y \in S : x <= y

Max(S) == CHOOSE x \in S : \A y \in S : x >= y

\* The creation loop of render() has been entered: temp_paths is final.
Creating == pc \in {"pre_create", "on_render", "post_create", "finalize", "done"}
            \/ (pc = "failed" /\ queue # <<>>)

----------------------------------------------------------------------------
(* C1 *)

\* C1: whenever an entry B has been materialized, every entry A of the final entry
\* list whose rendered path is a strict component-wise prefix of B's was
\* materialized strictly before B.
C1_ParentBeforeChild ==
    \A j \in At("create") :
        \A a \in 1..Len(temp_paths) :
            StrictPrefix(temp_paths[a].rendered, trace[j].item) =>
                \E i \in At("create") :
                    i < j /\ trace[i].item = temp_paths[a].rendered

\* C1 witness: a finished run whose entry list, as the on_paths hooks left it, held a
\* child before its parent, both of them materialized.
C1_Witness ==
    /\ pc = "done"
    /\ \E a, b \in 1..Len(temp_paths) :
          /\ b < a
          /\ StrictPrefix(temp_paths[a].rendered, temp_paths[b].rendered)
          /\ \E i, j \in At("create") :
                trace[i].item = temp_paths[a].rendered
                /\ trace[j].item = temp_paths[b].rendered

----------------------------------------------------------------------------
(* C2 *)

\* Some component of the raw path renders to the empty string.
EmptySegment(raw) == AnyEmpty(RenderParts(raw, metadata))

\* The entry with this raw path is in no entry list and no node of the output was
\* made for it in this run.
LeftOut(raw) ==
    /\ \A i \in 1..Len(temp_paths) : temp_paths[i].raw # raw
    /\ \A i \in 1..Len(queue) : queue[i].raw # raw
    /\ \A q \in DOMAIN disk :
          disk[q].src = raw => (q \in DOMAIN disk0 /\ disk0[q] = disk[q])

\* C2: a source entry with a path segment that renders to the empty string, and
\* every entry below it, is in no entry list and has nothing made for it in the
\* output; and the tree walk itself raises no error because of it.
C2_EmptySegmentOmitted ==
    /\ [](\A e, f \in SourceTree :
            EmptySegment(e.raw) /\ IsPrefix(e.raw, f.raw) => LeftOut(f.raw))
    /\ [][(PastLoop("initialize") /\ source_dir /\
            \A e \in SourceTree : PartsOk(e.raw, metadata))
            => (pc' = "on_paths" /\ error' = "none")]_vars

\* C2 witness: a finished run in which a source directory with an entry below it was
\* left out, while other entries were materialized.
C2_Witness ==
    /\ pc = "done"
    /\ At("create") # {}
    /\ \E e, f \in SourceTree :
          EmptySegment(e.raw) /\ StrictPrefix(e.raw, f.raw) /\ e.is_dir

----------------------------------------------------------------------------
(* C3 *)

HookNames == {"on_load", "pre_prompt", "post_prompt", "initialize", "on_paths",
              "pre_create", "on_render", "post_create", "finalize"}

\* The positions of the trace that hold a hook call.
HookCalls == {i \in 1..Len(trace) : trace[i].ev \in HookNames}

\* The place of a hook call in the fixed order: its stage, the field or entry it is
\* about, its place among the hooks of that field or entry, and the plugin called.
StageOf(ev) ==
    CASE ev = "on_load" -> 1
      [] ev \in {"pre_prompt", "post_prompt"} -> 2
      [] ev = "initialize" -> 3
      [] ev = "on_paths" -> 4
      [] ev \in {"pre_create", "on_render", "post_create"} -> 5
      [] OTHER -> 6

StepOf(ev) ==
    CASE ev \in {"pre_prompt", "pre_create"} -> 1
      [] ev \in {"post_prompt", "on_render"} -> 2
      [] ev = "post_create" -> 3
      [] OTHER -> 0

PlaceOf(e) == <<StageOf(e.ev), e.n, StepOf(e.ev), e.plugin>>

\* Places compared lexicographically.
PlaceLt(x, y) ==
    \E k \in 1..4 : (\A m \in 1..(k - 1) : x[m] = y[m]) /\ x[k] < y[k]

\* How many times hook ev was called on plugin p (about field or entry n).
CallCount(ev, n, p) == Cardinality({i \in AtN(ev, n) : trace[i].plugin = p})

\* C3: in a successful run the hook calls occur in the fixed order on_load, then per
\* field (in declared order) pre_prompt then post_prompt, then initialize, then
\* on_paths, then per entry (in sorted order) pre_create, on_render, post_create,
\* then finalize, the plugins in load order within each stage; on_load, initialize,
\* on_paths and finalize are called exactly once on every plugin, pre_create and
\* post_create exactly once on every plugin for every entry, and on_render exactly
\* once on every plugin for every entry that is a text file.
C3_HookOrder ==
    pc = "done" =>
        /\ \A i, j \in HookCalls :
              i < j => PlaceLt(PlaceOf(trace[i]), PlaceOf(trace[j]))
        /\ \A p \in 1..Len(plugins) :
              /\ \A ev \in {"on_load", "initialize", "on_paths", "finalize"} :
                    CallCount(ev, 0, p) = 1
              /\ \A n \in 1..Len(queue) :
                    /\ CallCount("pre_create", n, p) = 1
                    /\ CallCount("post_create", n, p) = 1
                    /\ CallCount("on_render", n, p) =
                          IF ~queue[n].is_dir /\ ~queue[n].content.bin THEN 1 ELSE 0
        /\ \A i \in HookCalls : trace[i].plugin \in 1..Len(plugins)

\* C3 witness: a successful run with two plugins, both fields prompted for, and a
\* directory, a binary file and a text file materialized.
C3_Witness ==
    /\ pc = "done"
    /\ Len(plugins) = 2
    /\ \A n \in 1..Len(Meta) : AtN("pre_prompt", n) # {} /\ AtN("post_prompt", n) # {}
    /\ \E a, b, c \in 1..Len(queue) :
          /\ queue[a].is_dir
          /\ ~queue[b].is_dir /\ queue[b].content.bin
          /\ ~queue[c].is_dir /\ ~queue[c].content.bin

----------------------------------------------------------------------------
(* C4 *)

\* prompt() is running, or has just returned.
Prompting == pc \in {"pre_prompt", "post_prompt", "render"}

\* The positions where a pre_prompt hook told the engine to skip field n.
Skips(n) == {i \in AtN("pre_prompt", n) : trace[i].ret = TrueRet}

\* The positions where a post_prompt hook intercepted the value of field n.
Intercepts(n) == {i \in AtN("post_prompt", n) : trace[i].ret = TrueRet}

\* C4: once a plugin's pre_prompt has returned True for a field, no pre_prompt of a
\* later plugin is called for it, the field is neither prompted for nor read from
\* the preset data, no post_prompt is called for it and nothing is stored for it:
\* its key is absent from the metadata when prompt() returns.
C4_SkipShortCircuits ==
    \A n \in 1..Len(Meta) :
        \A i \in Skips(n) :
            /\ \A j \in AtN("pre_prompt", n) : j <= i
            /\ AtN("ask", n) = {} /\ AtN("preset", n) = {}
            /\ AtN("post_prompt", n) = {} /\ AtN("store", n) = {}
            /\ Prompting => ~MetaHas(metadata, Meta[n].name)

\* C4 witness: prompt() has returned, the first of two plugins skipped a field whose
\* key the preset data holds, and the other field was resolved.
C4_Witness ==
    /\ pc = "render"
    /\ Len(plugins) = 2
    /\ \E n \in 1..Len(Meta) :
          /\ \E i \in Skips(n) : trace[i].plugin = 1
          /\ InData(Meta[n].name)
    /\ At("store") # {}

----------------------------------------------------------------------------
(* C5 *)

\* The positions where field n was resolved to a value: read from the preset data,
\* or answered at the prompt.
Resolved(n) == {i \in AtN("preset", n) \cup AtN("ask", n) : trace[i].ret.flag = "value"}

\* The step is a post_prompt call that intercepts the value.
InterceptStep ==
    /\ Len(trace') = Len(trace) + 1
    /\ trace'[Len(trace')].ev = "post_prompt"
    /\ trace'[Len(trace')].ret = TrueRet

\* C5: when a post_prompt hook intercepts the value of a field, the call leaves the
\* metadata as it was and prompt() goes on with the next field; no post_prompt of a
\* later plugin is called for the field and nothing is stored for it. When no hook
\* intercepts a resolved value, metadata[key] is exactly that value.
C5_InterceptSuppressesStore ==
    /\ [](\A n \in 1..Len(Meta) :
            /\ \A i \in Intercepts(n) :
                  /\ \A j \in AtN("post_prompt", n) : j <= i
                  /\ AtN("store", n) = {}
                  /\ Prompting => ~MetaHas(metadata, Meta[n].name)
            /\ (Prompting /\ fieldIdx > n /\ Resolved(n) # {} /\ Intercepts(n) = {}) =>
                  /\ MetaHas(metadata, Meta[n].name)
                  /\ MetaGet(metadata, Meta[n].name) = trace[Max(Resolved(n))].ret.val)
    /\ [][InterceptStep =>
            /\ metadata' = metadata
            /\ fieldIdx' = fieldIdx + 1
            /\ pc' = IF fieldIdx' > Len(Meta) THEN "render" ELSE "pre_prompt"]_vars

\* C5 witness: prompt() has returned; the first of two plugins intercepted the value
\* of one field, and the value of another field was stored.
C5_Witness ==
    /\ pc = "render"
    /\ Len(plugins) = 2
    /\ \E n \in 1..Len(Meta) : \E i \in Intercepts(n) : trace[i].plugin = 1
    /\ \E n \in 1..Len(Meta) : Resolved(n) # {} /\ AtN("store", n) # {}

----------------------------------------------------------------------------
(* C6 *)

\* Entry n of the sorted list is a file with text for content.
TextEntry(n) == ~queue[n].is_dir /\ ~queue[n].content.bin

\* The positions where an on_render hook returned a text for entry n.
Replacements(n) == {i \in AtN("on_render", n) : trace[i].ret.flag = "str"}

\* The content of entry n as the templating engine renders it.
TemplateRendered(n) == <<JinjaRender(queue[n].content.tpl, metadata).s>>

\* The text file entry the loop is at has just been written.
JustWritten == pc = "post_create" /\ TextEntry(entryIdx)

\* C6 as claimed: the content written for a text file is the first non-null
\* on_render result in plugin load order, or the template-rendered content when
\* every plugin returns None.
C6_FirstNonNullWins ==
    JustWritten =>
        disk[Entry.rendered].data =
            IF Replacements(entryIdx) = {} THEN TemplateRendered(entryIdx)
            ELSE trace[Min(Replacements(entryIdx))].ret.text

\* C6 amended: the content written for a text file is the last non-null on_render
\* result in plugin load order (every plugin is called, each non-null result
\* replacing the working content), or the template-rendered content when every
\* plugin returns None.
C6_LastNonNullWins ==
    JustWritten =>
        disk[Entry.rendered].data =
            IF Replacements(entryIdx) = {} THEN TemplateRendered(entryIdx)
            ELSE trace[Max(Replacements(entryIdx))].ret.text

\* C6 witness: a text file has just been written after two plugins returned a text
\* from on_render for it.
C6_Witness ==
    /\ JustWritten
    /\ Cardinality(Replacements(entryIdx)) >= 2

----------------------------------------------------------------------------
(* C7 *)

\* What a chained hook call leaves as the working value: what it returned, or, when
\* it returned None, what it was passed.
LeftBy(e) == IF e.ret.flag = "None" THEN e.arg ELSE e.ret

\* Call i of a chain (the calls at positions S) was passed what the call on the
\* plugin before left, the first call what the engine started the chain with.
Chained(S, i, start) ==
    IF trace[i].plugin = 1 THEN trace[i].arg = start
    ELSE \E j \in S : /\ trace[j].plugin = trace[i].plugin - 1
                      /\ trace[i].arg = LeftBy(trace[j])

\* What a chain leaves to the pipeline: what its last call left, or what the engine
\* started it with when no plugin was called.
ChainResult(S, start) == IF S = {} THEN start ELSE LeftBy(trace[Max(S)])

\* The list the tree walk gathered.
Gathered == PathsRet(trace[Max(At("gather"))].ret.paths)

\* C7: in the on_paths chain and in the on_render chain every plugin is passed the
\* working value as the plugins before it left it (the replacement an earlier plugin
\* returned, or the original when none returned one); a plugin that returns None
\* leaves the working value unchanged for the next plugin and for the pipeline, which
\* sorts the list the on_paths chain left and writes the text the on_render chain
\* left.
C7_ChainedWorkingValue ==
    /\ \A i \in At("on_paths") : Chained(At("on_paths"), i, Gathered)
    /\ Creating =>
          /\ PathsRet(temp_paths) = ChainResult(At("on_paths"), Gathered)
          /\ queue = Sorted(ChainResult(At("on_paths"), Gathered).paths)
    /\ \A n \in 1..Len(queue) :
          \A i \in AtN("on_render", n) :
              Chained(AtN("on_render", n), i, TextRet(TemplateRendered(n)))
    /\ JustWritten =>
          TextRet(disk[Entry.rendered].data) =
              ChainResult(AtN("on_render", entryIdx), TextRet(TemplateRendered(entryIdx)))

\* C7 witness: a text file has just been written in a run of two plugins where, in
\* each chain, one plugin returned None and the other a replacement.
C7_Witness ==
    /\ JustWritten
    /\ Len(plugins) = 2
    /\ \E i, j \in At("on_paths") :
          trace[i].ret.flag = "None" /\ trace[j].ret.flag = "list"
    /\ \E i, j \in AtN("on_render", entryIdx) :
          trace[i].ret.flag = "None" /\ trace[j].ret.flag = "str"

----------------------------------------------------------------------------
(* C8 *)

\* prompt() is past field n and no hook skipped it or intercepted its value.
Kept(n) == Prompting /\ fieldIdx > n /\ Skips(n) = {} /\ Intercepts(n) = {}

\* C8: a declared field whose key is in the preset data is never prompted for, and,
\* unless a hook skips it or intercepts its value, metadata[key] is exactly the
\* preset value: not converted to the field's kind, not validated.
C8_PresetVerbatim ==
    \A n \in 1..Len(Meta) :
        InData(Meta[n].name) =>
            /\ AtN("ask", n) = {}
            /\ Kept(n) => /\ MetaHas(metadata, Meta[n].name)
                          /\ MetaGet(metadata, Meta[n].name) = data.d[Meta[n].name]

\* C8 witness: prompt() has returned with two preset values stored, an empty string
\* for a required field and an integer for a string field.
C8_Witness ==
    /\ pc = "render"
    /\ \E n, m \in 1..Len(Meta) :
          /\ InData(Meta[n].name) /\ InData(Meta[m].name) /\ Kept(n) /\ Kept(m)
          /\ Meta[n].required /\ MetaGet(metadata, Meta[n].name) = StrV("")
          /\ Meta[m].type = "str" /\ MetaGet(metadata, Meta[m].name).t = "int"

----------------------------------------------------------------------------
(* C9 *)

\* The field declares a default text.
HasDefault(field) == field.default # Lit("")

\* The preset data of the scenario: {project_name: demo}.
DemoData == Data([k \in {"project_name"} |-> StrV("demo")])

\* C9 as claimed: with preset data supplied, a field that has a default and whose key
\* is absent from the data is resolved to the default and no prompt is issued for it.
C9_DefaultWithoutPrompt ==
    \A n \in 1..Len(Meta) :
        (~data.none /\ ~InData(Meta[n].name) /\ HasDefault(Meta[n])) =>
            /\ AtN("ask", n) = {}
            /\ Kept(n) => /\ MetaHas(metadata, Meta[n].name)
                          /\ MetaGet(metadata, Meta[n].name).v =
                                JinjaRender(Meta[n].default, metadata).s

\* C9 amended: with preset data supplied, a field whose key is absent from the data is
\* still prompted for (exactly once, unless a pre_prompt hook skips it), the prompt
\* pre-filled with its rendered default, and what is stored is the answer given;
\* with project_name (required), version (default "0.1.0") and the preset
\* {project_name: demo}, prompt() issues one prompt, for version, and yields
\* {project_name: demo, version: 0.1.0} when the pre-filled default is accepted.
C9_DefaultIsPrompted ==
    /\ \A n \in 1..Len(Meta) :
          (~data.none /\ ~InData(Meta[n].name) /\ Prompting /\ fieldIdx > n
             /\ Skips(n) = {}) =>
              /\ Cardinality(AtN("ask", n)) = 1
              /\ \A i \in AtN("ask", n) :
                    /\ trace[i].arg.text = <<JinjaRender(Meta[n].default, metadata).s>>
                    /\ Kept(n) => /\ MetaHas(metadata, Meta[n].name)
                                  /\ MetaGet(metadata, Meta[n].name) = trace[i].ret.val
    /\ (data = DemoData /\ pc = "render" /\ \A n \in 1..Len(Meta) : Kept(n)) =>
          /\ Cardinality(At("ask")) = 1
          /\ \A i \in At("ask") :
                /\ trace[i].item = <<"version">>
                /\ trace[i].ret.val = StrV("0.1.0") =>
                      metadata = << [k |-> "project_name", v |-> StrV("demo")],
                                    [k |-> "version", v |-> StrV("0.1.0")] >>

\* C9 witness: the scenario's run: the preset {project_name: demo}, the prompt for
\* version answered with its default, and the metadata of the scenario.
C9_Witness ==
    /\ pc = "render"
    /\ data = DemoData
    /\ \E i \in At("ask") : trace[i].item = <<"version">> /\ trace[i].ret.val = StrV("0.1.0")
    /\ metadata = << [k |-> "project_name", v |-> StrV("demo")],
                     [k |-> "version", v |-> StrV("0.1.0")] >>

----------------------------------------------------------------------------
(* C10 *)

\* What the output directory holds at path q (absent when nothing is there).
Held(d, q) == IF q \in DOMAIN d THEN d[q] ELSE Node("none", <<>>, <<>>)

\* Nothing strictly below p differs from what was there before the run.
Untouched(p) ==
    \A q \in DOMAIN disk \cup DOMAIN disk0 :
        StrictPrefix(p, q) => Held(disk, q) = Held(disk0, q)

\* C10: when render reaches a directory entry whose target exists, the run fails
\* there with PathAlreadyExists, the output directory is left as it is, and nothing
\* below the target has been created, modified or removed since before the run.
C10_ExistingDirectoryFails ==
    /\ [][(PastLoop("pre_create") /\ Entry.is_dir /\ Exists(disk, Entry.rendered))
            => /\ pc' = "failed"
               /\ error' = "PathAlreadyExists"
               /\ entryIdx' = entryIdx
               /\ disk' = disk]_vars
    /\ [](error = "PathAlreadyExists" =>
            /\ pc = "failed"
            /\ Entry.is_dir
            /\ Exists(disk, Entry.rendered)
            /\ disk[Entry.rendered].kind = "dir"
            /\ Untouched(Entry.rendered))
    /\ [](\A k \in 1..Len(queue) :
            (Creating /\ queue[k].is_dir /\ Exists(disk0, queue[k].rendered)) =>
                entryIdx <= k)

\* C10 witness: the run failed with PathAlreadyExists at a directory entry whose
\* target was in the output directory before the run, with a file inside it, and the
\* file is still there as it was.
C10_Witness ==
    /\ pc = "failed"
    /\ error = "PathAlreadyExists"
    /\ Entry.is_dir
    /\ Exists(disk0, Entry.rendered)
    /\ \E q \in DOMAIN disk0 :
          /\ StrictPrefix(Entry.rendered, q)
          /\ disk0[q].kind = "file"
          /\ Held(disk, q) = disk0[q]

----------------------------------------------------------------------------
(* C11 *)

\* render() raised while the creation loop was at the k-th entry of the sorted list.
FailedAt(k) == pc = "failed" /\ k = entryIdx /\ k \in 1..Len(queue)

\* The entries the trace says were materialized, by their place in the sorted list.
Materialized == {trace[i].n : i \in At("create")}

\* Entry j is in the output directory, as the kind of node it is.
OnDisk(j) ==
    /\ Exists(disk, queue[j].rendered)
    /\ disk[queue[j].rendered].kind = IF queue[j].is_dir THEN "dir" ELSE "file"

----------------------------------------------------------------------------
(* C12 *)

\* The run is about to render a template that does not render: a field's default,
\* a component of a source path, or the text content of a file entry.
DefaultFails ==
    PastLoop("pre_prompt") /\ ~InData(Field.name) /\ ~DefaultValue(Field, metadata).ok

SegmentFails ==
    PastLoop("initialize") /\ \E e \in SourceTree : ~PartsOk(e.raw, metadata)

ContentFails ==
    /\ PastLoop("pre_create")
    /\ ~Entry.is_dir
    /\ ~Entry.content.bin
    /\ Exists(disk, Parent(Entry.rendered))
    /\ ~JinjaRender(Entry.content.tpl, metadata).ok

\* C12: a template that fails to render, be it a field default, a path component or
\* a file's content, ends the run with TexJamTemplateStringException, and no run
\* ends with the templating engine's own TemplateError.
C12_TemplateErrorWrapped ==
    /\ [][(DefaultFails \/ SegmentFails \/ ContentFails) =>
            (pc' = "failed" /\ error' = "TexJamTemplateStringException")]_vars
    /\ [](error # "TemplateError")

----------------------------------------------------------------------------
(* C13 *)

\* The user cancelled a prompt.
Cancelled == \E i \in At("ask") : trace[i].ret.flag = "Abort"

\* What render() does and calls.
RenderEvents ==
    {"initialize", "gather", "on_paths", "pre_create", "on_render", "create",
     "post_create", "finalize"}

\* C13: once the user has cancelled a prompt the run has ended with Abort: render()
\* is not entered, the output directory is as it was before the run (not created
\* when it was absent), and none of the hooks of render() has been called.
C13_CancelAbortsRun ==
    Cancelled =>
        /\ pc = "failed"
        /\ error = "Abort"
        /\ disk = disk0
        /\ temp_paths = <<>> /\ queue = <<>>
        /\ \A i \in 1..Len(trace) : trace[i].ev \notin RenderEvents

\* C13 witness: the prompt of the second field cancelled, after the first field was
\* stored, with no output directory there: none is made.
C13_Witness ==
    /\ Cancelled
    /\ pc = "failed"
    /\ fieldIdx = 2
    /\ metadata # <<>>
    /\ ~Exists(disk, <<>>)

----------------------------------------------------------------------------
(* C14 *)

\* The value satisfies the constraints of the field: it is of the field's kind, it is
\* one of the choices when choices are declared, it is within the length and numeric
\* bounds, and it is not empty when the field is required. None, which
\* texjam/config.py returns on an empty line for a field that is not required and
\* declares no default, is the absent default of such a field and no value at all.
ValidValue(f, md, val) ==
    CASE f.cls = "MetaField" ->
            IF val.t = "none" THEN ~f.required /\ f.default.t = "none"
            ELSE /\ IsInstance(val, {f.type})
                 /\ f.choices.t = "none" \/ InChoices(val, PreparedChoices(f, md).val)
      [] f.cls = "MetaStr" ->
            /\ val.t = "str"
            /\ ~(f.required /\ val.v = "")
            /\ f.min_length.t = "none" \/ TextLen(val.v) * 10 >= Mag(f.min_length)
      [] f.cls = "MetaNumber" ->
            /\ val.t = IF f.is_integer THEN "int" ELSE "float"
            /\ f.min_value.t = "none" \/ Mag(val) >= Mag(f.min_value)
      [] f.cls = "MetaBool" -> val.t = "bool"
      [] f.cls = "MetaChoice" -> \E i \in 1..Len(f.choices.v) : val = f.choices.v[i]
      [] OTHER -> FALSE

----------------------------------------------------------------------------
(* C15 *)

\* The line read is empty (nothing, or blanks only).
EmptyLineRead ==
    fpc = "input" /\ impl = "config" /\ reads' = reads + 1 /\ user_input' \in {"", " "}

\* The declared default of the field, rendered against the metadata collected so
\* far (a key it does not hold renders as the empty text) and converted to the
\* field's kind; None when no default is declared.
DeclaredDefault ==
    IF meta_field.default.t # "str" THEN meta_field.default
    ELSE Convert(meta_field.type,
                 IF meta_field.default.v # PreviousKey THEN meta_field.default.v
                 ELSE IF MetaHas(metadata, "previous_key")
                 THEN MetaGet(metadata, "previous_key").v
                 ELSE "").val

\* The default passes the check of the choices: none is declared, or the default is
\* one of them.
DefaultAmongChoices ==
    \/ meta_field.choices.t = "none"
    \/ InChoices(DeclaredDefault, PreparedChoices(meta_field, metadata).val)

\* C15 as stated: on an empty line a required field is prompted again, and a field
\* that is not required always resolves to its default, rendered and converted.
C15_EmptyResolvesToDefault ==
    [][EmptyLineRead =>
         IF meta_field.required THEN fpc' = "input"
         ELSE fpc' = "returned" /\ input_value' = DeclaredDefault]_vars

\* C15, amended: on an empty line a required field is prompted again; a field that
\* is not required resolves to its default, rendered and converted, when it
\* declares no choices or the default is one of them, and is prompted again when
\* the default is none of its choices.
C15_EmptyResolvesToDefaultInChoices ==
    [][EmptyLineRead =>
         IF meta_field.required THEN fpc' = "input"
         ELSE IF DefaultAmongChoices
         THEN fpc' = "returned" /\ input_value' = DeclaredDefault
         ELSE fpc' = "input" /\ input_value' = input_value]_vars

\* An empty line has resolved a field with choices to its templated default.
C15_Witness ==
    /\ fpc = "returned" /\ impl = "config" /\ user_input \in {"", " "}
    /\ meta_field.choices.t = "list"
    /\ meta_field.default = StrV(PreviousKey)
    /\ input_value = DeclaredDefault

----------------------------------------------------------------------------
(* C16 *)

\* The value cannot be assigned to the kind: it is no instance of it, and it is no
\* text that either holds markup (it is rendered first) or converts to the kind.
NotAssignable(val, kind) ==
    /\ ~IsInstance(val, {kind})
    /\ ~(val.t = "str" /\ (val.v = PreviousKey \/ Convert(kind, val.v).ok))

\* The record is one of the invalid declarations: an unknown option key, an
\* unsupported type name, a default or a choice that cannot be assigned to the
\* declared kind, an empty list of choices, or choices on a boolean field.
InvalidRecord(o) ==
    /\ o.t = "dict"
    /\ \/ \E k \in DOMAIN o.d : k \notin {"prompt", "type", "default", "choices", "required"}
       \/ Get(o, "type").t # "str"
       \/ Get(o, "type").v \notin SupportedTypes
       \/ Get(o, "default").t # "none" /\ NotAssignable(Get(o, "default"), Get(o, "type").v)
       \/ /\ Get(o, "choices").t = "list"
          /\ \/ Len(Get(o, "choices").v) = 0
             \/ Get(o, "type").v = "bool"
             \/ \E i \in 1..Len(Get(o, "choices").v) :
                   NotAssignable(Get(o, "choices").v[i], Get(o, "type").v)

\* C16: MetaField.parse_input never accepts an invalid record: once the construction
\* has run on one, it has failed and no descriptor exists.
C16_InvalidRecordFails ==
    (impl = "config" /\ fpc # "parse" /\ InvalidRecord(obj.raw)) =>
        (fpc = "raised" /\ meta_field = NoField)

----------------------------------------------------------------------------
(* C17 *)

\* The declaration is a record that sets required to true and declares a default.
RequiredWithDefault(o) ==
    /\ o.t = "dict"
    /\ Get(o, "required") = BoolV("True")
    /\ "default" \in DOMAIN o.d

\* C17: whichever module builds the field and whatever its kind, the construction
\* of a record that sets required to true and declares a default fails, and no
\* descriptor that is required and holds a declared default is produced.
C17_RequiredWithDefaultFails ==
    (fpc # "parse" /\ RequiredWithDefault(obj.raw)) =>
        (fpc = "raised" /\ meta_field = NoField)

----------------------------------------------------------------------------
(* C18 *)

\* The kind of a descriptor, named as the type of the scalar that gives it.
KindOf(f) ==
    CASE f.cls = "MetaField" -> f.type
      [] f.cls = "MetaStr" -> "str"
      [] f.cls = "MetaNumber" -> IF f.is_integer THEN "int" ELSE "float"
      [] f.cls = "MetaBool" -> "bool"
      [] OTHER -> "none"

\* C18: whichever module builds the field, a bare scalar under a valid key gives a
\* descriptor of the kind of the scalar's type (str, int, float, bool), whose
\* default is the scalar and which is not required.
C18_BareScalarInferred ==
    (fpc # "parse" /\ obj.key = "key_value" /\ obj.raw.t \in {"str", "int", "float", "bool"}) =>
        /\ meta_field # NoField
        /\ KindOf(meta_field) = obj.raw.t
        /\ meta_field.default = obj.raw
        /\ ~meta_field.required

----------------------------------------------------------------------------
(* C19 *)

\* C19: for a record MetaField.parse_input accepts, required is the value the record
\* gives, and without one it is false when a default is declared and true when none
\* is, and the choices are the declared ones in the declared order; a null
\* declaration gives a str field with no default, no choices and required true.
C19_RequiredDerived ==
    (impl = "config" /\ meta_field # NoField) =>
        /\ obj.raw.t = "dict" =>
              /\ meta_field.required =
                    IF "required" \in DOMAIN obj.raw.d THEN obj.raw.d["required"] = BoolV("True")
                    ELSE "default" \notin DOMAIN obj.raw.d
              /\ meta_field.choices = Get(obj.raw, "choices")
        /\ obj.raw.t = "none" =>
              meta_field = MetaField(obj.key, "str", NoneV, NoneV, TRUE)

\* A record with a default, two choices and no required has been built: it is not
\* required and its choices are in the declared order.
C19_Witness ==
    /\ impl = "config" /\ meta_field # NoField
    /\ obj.raw.t = "dict"
    /\ DOMAIN obj.raw.d = {"type", "default", "choices"}
    /\ ~meta_field.required
    /\ meta_field.choices = ListV(<<IntV("5"), IntV("2")>>)

----------------------------------------------------------------------------
(* C20 *)

\* The step writes the file of a virtual entry (no source reference) whose content
\* is a literal text, one without markup.
WritesLiteralVirtual ==
    /\ pc = "on_render" /\ disk' # disk
    /\ Entry.raw = <<>> /\ ~Entry.is_dir
    /\ ~Entry.content.bin /\ Entry.content.tpl.op = "lit"

\* The lines the on_render hooks of the loaded plugins append, in load order.
OnRenderLines ==
    LET hooked == SelectSeq(plugins, LAMBDA p : p.on_render # "")
    IN  [i \in 1..Len(hooked) |-> hooked[i].on_render]

\* C20 as stated: the file of a virtual entry with literal content is written at the
\* entry's rendered path with exactly the content the plugin supplied.
C20_VirtualContentExact ==
    [][WritesLiteralVirtual =>
         disk'[Entry.rendered] = Node("file", <<Entry.content.tpl.s>>, <<>>)]_vars

\* C20, amended: the file of a virtual entry with literal content is written at the
\* entry's rendered path with the content the plugin supplied followed by what the
\* on_render hooks of the loaded plugins make of it, hence with exactly the supplied
\* content when no plugin's on_render returns a text.
C20_VirtualContentThroughOnRender ==
    [][WritesLiteralVirtual =>
         disk'[Entry.rendered] =
            Node("file", <<Entry.content.tpl.s>> \o OnRenderLines, <<>>)]_vars

\* notes.txt is on disk with the literal content followed by the line the plugin's
\* own on_render appends.
C20_Witness ==
    /\ Exists(disk, <<"notes.txt">>)
    /\ disk[<<"notes.txt">>] = Node("file", <<"note", "<!-- Notes -->">>, <<>>)

----------------------------------------------------------------------------
(* C21 *)

\* A file entry is about to be written: its pre_create hooks have run.
AboutToWrite == PastLoop("pre_create") /\ ~Entry.is_dir

\* The parent of the entry is provided for: it is the output directory itself, it
\* was there before the run, or it is the rendered path of a directory entry of the
\* final list.
ParentProvided ==
    \/ Parent(Entry.rendered) = <<>>
    \/ Exists(disk0, Parent(Entry.rendered))
    \/ \E j \in 1..Len(queue) :
          queue[j].is_dir /\ queue[j].rendered = Parent(Entry.rendered)

----------------------------------------------------------------------------
(* C22 *)

\* The default of the field is a template that refers to a key the metadata
\* collected so far does not hold: a field not resolved yet.
RefersToUnresolved ==
    /\ meta_field # NoField
    /\ meta_field.default = StrV(PreviousKey)
    /\ ~MetaHas(metadata, "previous_key")

\* C22: a default that refers to a field not resolved yet fails when it is rendered:
\* the prompt of the field ends with the rendering error, and neither asks for
\* input nor returns a value; the metadata mapping stays as it was.
C22_UnresolvedDefaultFails ==
    /\ [](RefersToUnresolved => fpc \in {"built", "raised"})
    /\ [][metadata' = metadata]_vars

----------------------------------------------------------------------------
(* C23 *)

\* load_plugins() has returned.
Loaded == pc \notin {"load", "on_load"} \/ (pc = "on_load" /\ plugIdx > Len(registry))

\* C23: in every run, the second one of a process included, once load_plugins has
\* returned the plugin list holds one instance of each plugin type the scripts of
\* the plugin directory define, in the order of their discovery, and on_load has
\* been called once on each, in that order.
C23_OneInstancePerType ==
    Loaded =>
        /\ plugins = scripts
        /\ Cardinality(At("on_load")) = Len(scripts)
        /\ \A i \in At("on_load") : trace[i].plugin = i

----------------------------------------------------------------------------
(* C24 *)

\* C24: the keys of the metadata mapping are always declared field keys, and the
\* mapping changes only where prompt() empties it on entry or stores a resolved
\* value: no call of a plugin hook changes it.
C24_OnlyPromptWritesMetadata ==
    /\ [](MetaKeys(metadata) \subseteq FieldNames)
    /\ [][metadata' # metadata =>
             \/ pc = "on_load" /\ pc' = "pre_prompt" /\ metadata' = <<>>
             \/ PastLoop("post_prompt") /\ metadata' = MetaSet(metadata, Field.name, value)]_vars

----------------------------------------------------------------------------
(* C25 *)

\* The second run's prompt() has returned, the user having given at the same
\* prompts the same answers as in the first run.
PromptedAgainAlike == runs = 2 /\ pc = "render" /\ Asked = first.asked

\* C25: with the same configuration, the same preset data and the same answers, the
\* second execution of prompt() yields the mapping the first one yielded: the same
\* keys with the same values in the same order, whatever the first run left in the
\* mapping.
C25_PromptIdempotent ==
    PromptedAgainAlike => metadata = first.metadata

\* The second prompt() has returned as the first did, after a first run whose
\* plugin added a key of its own to the mapping and in which the user was asked.
C25_Witness ==
    /\ PromptedAgainAlike
    /\ Asked # <<>>
    /\ metadata # <<>>
    /\ \E i \in 1..Len(plugins) : plugins[i].initialize

----------------------------------------------------------------------------
(* C26 *)

\* Entry k of the sorted list is a file whose content is bytes.
BinaryEntry(k) == ~queue[k].is_dir /\ queue[k].content.bin

\* The creation loop is past entry k.
PastEntry(k) == Creating /\ (entryIdx > k \/ pc \in {"finalize", "done"})

\* C26: a file entry whose content is bytes is written with exactly those bytes and
\* the run goes straight on to its post_create hooks; on_render is never called for
\* it, while every plugin's pre_create is called before it is written and every
\* plugin's post_create after. A virtual file created without content is such an
\* entry, its bytes none: it is written as an empty file.
C26_BinaryWrittenUnchanged ==
    /\ [][(PastLoop("pre_create") /\ BinaryEntry(entryIdx) /\ disk' # disk) =>
             /\ disk'[Entry.rendered] = Node("file", <<Entry.content.tpl.s>>, Entry.raw)
             /\ pc' = "post_create"]_vars
    /\ [](\A k \in 1..Len(queue) :
            BinaryEntry(k) =>
                /\ AtN("on_render", k) = {}
                /\ k \in Materialized =>
                      {trace[i].plugin : i \in AtN("pre_create", k)} = 1..Len(plugins)
                /\ (k \in Materialized /\ PastEntry(k)) =>
                      {trace[i].plugin : i \in AtN("post_create", k)} = 1..Len(plugins))

\* The run is over: a binary source file and a virtual file created without content
\* are in the output as they were given, although a loaded plugin's on_render
\* appends a line to every text it is called with.
C26_Witness ==
    /\ pc = "done"
    /\ \E i \in 1..Len(plugins) : plugins[i].on_render # ""
    /\ Exists(disk, <<"keep">>) /\ disk[<<"keep">>] = Node("file", <<"">>, <<>>)
    /\ \E k \in 1..Len(queue) :
          /\ BinaryEntry(k) /\ queue[k].raw # <<>>
          /\ Exists(disk, queue[k].rendered)
          /\ disk[queue[k].rendered].data = <<"png">>

----------------------------------------------------------------------------
(* C27 *)

\* The entries hook ev has been called for on plugin p.
EntriesOf(ev, p) == {trace[i].n : i \in {j \in At(ev) : trace[j].plugin = p}}

\* The plugins hook ev has been called on for entry k, before place i of the trace.
CalledBefore(ev, k, i) == {trace[j].plugin : j \in {m \in AtN(ev, k) : m < i}}

----------------------------------------------------------------------------
(* C28 *)

\* The plugins before the one called at place i of the trace.
Earlier(i) == 1..(trace[i].plugin - 1)

\* C28: for every declared field, whether its key is in the preset data or not:
\* pre_prompt is called on the plugins in load order, each call after the calls that
\* did not skip the field; the field is resolved (read from the preset data exactly
\* when its key is there, asked for otherwise) only after every plugin's pre_prompt
\* was called and none skipped it; post_prompt is called on the plugins in load
\* order, after the field was resolved and with the resolved value, each call after
\* the calls that did not intercept it; the value is stored only after every
\* plugin's post_prompt was called and none intercepted it. A key of the preset data
\* is absent from the metadata when prompt() returns exactly when a hook skipped the
\* field or intercepted its value.
C28_PresetGoesThroughHooks ==
    \A n \in 1..Len(Meta) :
        /\ \A i \in AtN("pre_prompt", n) :
              /\ CalledBefore("pre_prompt", n, i) = Earlier(i)
              /\ \A j \in Skips(n) : j >= i
        /\ \A r \in Resolved(n) :
              /\ CalledBefore("pre_prompt", n, r) = 1..Len(plugins)
              /\ Skips(n) = {}
              /\ trace[r].ev = "preset" <=> InData(Meta[n].name)
        /\ \A i \in AtN("post_prompt", n) :
              /\ Resolved(n) # {}
              /\ Max(Resolved(n)) < i
              /\ trace[i].arg = trace[Max(Resolved(n))].ret
              /\ CalledBefore("post_prompt", n, i) = Earlier(i)
              /\ \A j \in Intercepts(n) : j >= i
        /\ \A s \in AtN("store", n) :
              /\ Resolved(n) # {}
              /\ CalledBefore("post_prompt", n, s) = 1..Len(plugins)
              /\ Intercepts(n) = {}
        /\ (pc = "render" /\ InData(Meta[n].name)) =>
              (~MetaHas(metadata, Meta[n].name) <=> Skips(n) \cup Intercepts(n) # {})

\* prompt() has returned. A key of the preset data went through both plugins'
\* pre_prompt, then the first plugin's post_prompt, called with the preset value, and
\* the second plugin's post_prompt intercepted it: the key is not in the metadata.
C28_Witness ==
    /\ pc = "render"
    /\ Len(plugins) = 2
    /\ \E n \in 1..Len(Meta) :
          /\ InData(Meta[n].name)
          /\ Cardinality(AtN("pre_prompt", n)) = 2
          /\ AtN("preset", n) # {}
          /\ \E i \in AtN("post_prompt", n) :
                trace[i].plugin = 1 /\ trace[i].arg = ValRet(data.d[Meta[n].name])
          /\ \E i \in Intercepts(n) : trace[i].plugin = 2
          /\ ~MetaHas(metadata, Meta[n].name)

----------------------------------------------------------------------------
(* C29 *)

\* render() raised: the template's source directory is not there.
SourceDirNotFound == pc = "failed" /\ error = "TexJamScaffoldSourceDirNotFoundException"

\* The hooks of render() that come after the look at the source directory.
LaterHooks == {"on_paths", "pre_create", "on_render", "post_create", "finalize"}

\* The plugins whose initialize has been called.
Initialized == {trace[i].plugin : i \in At("initialize")}

\* The output directory holds what it held when the run began, and nothing else but
\* itself.
OnlyOutputDirMade ==
    /\ Exists(disk, <<>>)
    /\ \A p \in DOMAIN disk : p # <<>> => (p \in DOMAIN disk0 /\ disk0[p] = disk[p])

\* C29: when the template's source directory does not exist, no on_paths, pre_create,
\* on_render, post_create or finalize hook is ever called, no entry is gathered or
\* materialized, render() does not return, and a failure that follows an
\* initialize call is the source-directory-not-found error; when the run has failed
\* with that error the output directory exists, initialize has been called on every
\* plugin, once, and the output directory holds nothing the run has made but itself.
\* The error is raised in no run whose source directory exists.
C29_MissingSourceDir ==
    /\ ~source_dir =>
          /\ \A i \in 1..Len(trace) : trace[i].ev \notin LaterHooks \cup {"gather", "create"}
          /\ temp_paths = <<>> /\ queue = <<>>
          /\ pc \notin {"on_paths", "pre_create", "on_render", "post_create",
                        "finalize", "done"}
          /\ (pc = "failed" /\ At("initialize") # {}) => SourceDirNotFound
    /\ SourceDirNotFound =>
          /\ ~source_dir
          /\ OnlyOutputDirMade
          /\ Initialized = 1..Len(plugins)
          /\ Cardinality(At("initialize")) = Len(plugins)

\* The run of a template without source directory has failed: two plugins are
\* loaded and the output directory, which was not there, has been made.
C29_Witness ==
    /\ SourceDirNotFound
    /\ Len(plugins) = 2
    /\ ~Exists(disk0, <<>>)
    /\ Exists(disk, <<>>)
    /\ At("initialize") # {}

----------------------------------------------------------------------------
(* C30 *)

\* Entries j and k of the sorted list, j the earlier, have the same rendered path.
Duplicate(j, k) == j < k /\ queue[j].rendered = queue[k].rendered

\* The creation loop is about to write the file of an entry that comes after a file
\* entry of the same rendered path.
WritingDuplicateFile ==
    /\ pc \in {"pre_create", "on_render"}
    /\ plugIdx > Len(plugins)
    /\ ~Entry.is_dir
    /\ pc = "pre_create" => Entry.content.bin
    /\ \E j \in 1..Len(queue) : Duplicate(j, entryIdx) /\ ~queue[j].is_dir

====
